---- MODULE Spec2Model ----
(***************************************************************************)
(* giftify: the claim / split-claim / ownership-flag / fulfilment state    *)
(* machine that the database triggers, partial unique indexes and          *)
(* row-level-security policies implement, together with the visibility     *)
(* function can_view_wishlist and the notification fan-out.                *)
(*                                                                         *)
(* Tables are sets of rows (records); notifications is a bag of rows.      *)
(* A timestamp column is modelled by whether it is set (TRUE) or NULL      *)
(* (FALSE); the value 0 stands for SQL NULL in id columns.                 *)
(***************************************************************************)
EXTENDS Integers, FiniteSets, Sequences, Bags, TLC

\* ------------------------------------------------------------------ bounds
MaxTarget == 3
MaxClaims == 2
MaxSplits == 2
MaxFlags == 1
MaxNotifs == 4
NumTx == 2
MaxGroupTarget == 4
MaxGroupNotifs == 5

Users == {1, 2, 3, 4}
NULL == 0

\* The one wishlist of the model, its owner and its one item.
WishlistIds == {1}
Items == {1}
Owner == CHOOSE u \in Users : \A v \in Users : u <= v

Privacies == {"friends", "selected_friends", "private", "public"}

VARIABLES
  wishlists,                 \* wishlist id -> [user_id, privacy]
  wishlist_items,            \* item id -> [wishlist_id]
  friendships,               \* rows [requester_id, addressee_id, status]
  wishlist_selected_friends, \* rows [wishlist_id, friend_id]
  item_claims,               \* rows [id, item_id, claimed_by, status, fulfilled_at]
  split_claims,              \* rows [id, item_id, initiated_by, target_participants,
                             \*       status, claim_status, confirmed_at, fulfilled_at]
  split_claim_participants,  \* rows [split_claim_id, user_id]
  item_ownership_flags,      \* rows [id, item_id, flagged_by, status]
  notifications,             \* bag of rows
  next_id,                   \* [claim, split, flag]: the next fresh id of each table
  returned,                  \* what the last operation returned to its caller
  tx,                        \* the create transactions in flight (concurrent runs)
  userNotifications,         \* notification id -> the signed-in user's row
                             \*   [status, is_read], or no row
  realtime,                  \* postgres_changes events on their way to the client
  useNotifications,          \* the hook's state [notifications, unreadCount]
  pending,                   \* the hook's calls that await a server's answer
  useDialogForm,             \* the hook's state [open, state] and its close timers
  useDialogReset             \* a dialog under useDialogReset: its refs and state

envVars == <<wishlists, wishlist_items, friendships, wishlist_selected_friends>>
claimVars == <<item_claims, split_claims, split_claim_participants>>
dbVars == <<wishlists, wishlist_items, friendships, wishlist_selected_friends,
            item_claims, split_claims, split_claim_participants,
            item_ownership_flags, notifications, next_id, tx>>
uiVars == <<userNotifications, realtime, useNotifications, pending,
            useDialogForm, useDialogReset>>
vars == <<dbVars, returned, uiVars>>

\* ------------------------------------------------------------ visibility

\* are_friends as it would be if it matched the friendship row in one
\* direction only.
are_friends_OneDirection(user1_id, user2_id) ==
  \E f \in friendships :
    /\ f.status = "accepted"
    /\ f.requester_id = user1_id /\ f.addressee_id = user2_id

\* are_friends(user1_id, user2_id): an accepted friendship row in either direction.
are_friends(user1_id, user2_id) ==
  \E f \in friendships :
    /\ f.status = "accepted"
    /\ \/ (f.requester_id = user1_id /\ f.addressee_id = user2_id)
       \/ (f.requester_id = user2_id /\ f.addressee_id = user1_id)

\* can_view_wishlist as it would be without the branch for private wishlists.
can_view_wishlist_PrivateAsFriends(wishlist_id, viewer_id) ==
  LET wishlist_record == wishlists[wishlist_id] IN
  IF wishlist_record.user_id = viewer_id THEN TRUE
  ELSE CASE wishlist_record.privacy = "friends" ->
              are_friends(wishlist_record.user_id, viewer_id)
         [] wishlist_record.privacy = "selected_friends" ->
              /\ are_friends(wishlist_record.user_id, viewer_id)
              /\ \E sf \in wishlist_selected_friends :
                   sf.wishlist_id = wishlist_id /\ sf.friend_id = viewer_id
         [] OTHER -> are_friends(wishlist_record.user_id, viewer_id)

\* can_view_wishlist as it would be without the call of are_friends in the
\* branch for friends wishlists.
can_view_wishlist_FriendsUnchecked(wishlist_id, viewer_id) ==
  LET wishlist_record == wishlists[wishlist_id] IN
  IF wishlist_record.user_id = viewer_id THEN TRUE
  ELSE CASE wishlist_record.privacy = "friends" -> TRUE
         [] wishlist_record.privacy = "selected_friends" ->
              /\ are_friends(wishlist_record.user_id, viewer_id)
              /\ \E sf \in wishlist_selected_friends :
                   sf.wishlist_id = wishlist_id /\ sf.friend_id = viewer_id
         [] wishlist_record.privacy = "private" -> FALSE
         [] OTHER -> are_friends(wishlist_record.user_id, viewer_id)

\* can_view_wishlist(wishlist_id, viewer_id)
can_view_wishlist(wishlist_id, viewer_id) ==
  LET wishlist_record == wishlists[wishlist_id] IN
  IF wishlist_record.user_id = viewer_id THEN TRUE
  ELSE CASE wishlist_record.privacy = "friends" ->
              are_friends(wishlist_record.user_id, viewer_id)
         [] wishlist_record.privacy = "selected_friends" ->
              /\ are_friends(wishlist_record.user_id, viewer_id)
              /\ \E sf \in wishlist_selected_friends :
                   sf.wishlist_id = wishlist_id /\ sf.friend_id = viewer_id
         [] wishlist_record.privacy = "private" -> FALSE
         [] OTHER -> are_friends(wishlist_record.user_id, viewer_id)

\* The join "wishlist_items JOIN wishlists" that every claim policy uses:
\* the wishlist row of an item.
WishlistOf(item_id) == wishlist_items[item_id].wishlist_id
OwnerOf(item_id) == wishlists[WishlistOf(item_id)].user_id

\* get_split_claim_item_info(p_item_id): the wishlist id and owner of an item.
get_split_claim_item_info(p_item_id) ==
  [wishlist_id |-> WishlistOf(p_item_id), wishlist_owner_id |-> OwnerOf(p_item_id)]

\* ------------------------------------------------- tables inside a statement

\* The mutable tables as one record, so that a statement and the triggers it
\* fires compose: each takes the tables as they are when it runs and yields
\* the tables as it leaves them.
Db ==
  [item_claims |-> item_claims,
   split_claims |-> split_claims,
   split_claim_participants |-> split_claim_participants,
   item_ownership_flags |-> item_ownership_flags,
   notifications |-> notifications]

\* A notifications row (title and message text left out).
Notification(user_id, type, actor_id, split_claim_id, item_id, wishlist_id, ownership_flag_id) ==
  [user_id |-> user_id, type |-> type, actor_id |-> actor_id,
   split_claim_id |-> split_claim_id, item_id |-> item_id,
   wishlist_id |-> wishlist_id, ownership_flag_id |-> ownership_flag_id]

\* INSERT INTO notifications of a set of (pairwise different) rows.
InsertNotifications(db, rows) ==
  [db EXCEPT !.notifications = @ (+) SetToBag(rows)]

\* notifications.split_claim_id REFERENCES split_claims(id) ON DELETE CASCADE
CascadeNotificationsOfSplit(bag, split_claim_id) ==
  [n \in {x \in DOMAIN bag : x.split_claim_id # split_claim_id} |-> bag[n]]

\* notifications.ownership_flag_id REFERENCES item_ownership_flags(id) ON DELETE CASCADE
CascadeNotificationsOfFlag(bag, ownership_flag_id) ==
  [n \in {x \in DOMAIN bag : x.ownership_flag_id # ownership_flag_id} |-> bag[n]]

\* The friends of a user as notify_friends and create_split_initiated_notification
\* compute them: the other end of each accepted friendship row of the user.
FriendIdsOf(p_user_id) ==
  {IF f.requester_id = p_user_id THEN f.addressee_id ELSE f.requester_id :
     f \in {g \in friendships :
              /\ g.status = "accepted"
              /\ (g.requester_id = p_user_id \/ g.addressee_id = p_user_id)}}

\* ------------------------------------------------------ split notifications

\* notify_split_participants as it would be without the test of
\* p_exclude_user_id.
notify_split_participants_NoExclusion(db, p_split_claim_id, p_type, p_actor_id, p_exclude_user_id, p_item_id, p_wishlist_id) ==
  InsertNotifications(db,
    {Notification(p.user_id, p_type, p_actor_id, p_split_claim_id, p_item_id,
                  p_wishlist_id, NULL) :
       p \in {q \in db.split_claim_participants :
                q.split_claim_id = p_split_claim_id}})

\* notify_split_participants(...): one row per participant of the split,
\* except p_exclude_user_id when it is not NULL.
notify_split_participants(db, p_split_claim_id, p_type, p_actor_id, p_exclude_user_id, p_item_id, p_wishlist_id) ==
  InsertNotifications(db,
    {Notification(p.user_id, p_type, p_actor_id, p_split_claim_id, p_item_id,
                  p_wishlist_id, NULL) :
       p \in {q \in db.split_claim_participants :
                /\ q.split_claim_id = p_split_claim_id
                /\ (p_exclude_user_id = NULL \/ q.user_id # p_exclude_user_id)}})

\* create_split_initiated_notification as it would be if it kept only the
\* friends who can view the wishlist.
create_split_initiated_notification_ViewersOnly(db, new) ==
  LET item_info == get_split_claim_item_info(new.item_id) IN
  InsertNotifications(db,
    {Notification(friend_id, "split_initiated", new.initiated_by, new.id,
                  new.item_id, item_info.wishlist_id, NULL) :
       friend_id \in {g \in FriendIdsOf(new.initiated_by) :
                        /\ g # item_info.wishlist_owner_id
                        /\ can_view_wishlist(item_info.wishlist_id, g)}})

\* create_split_initiated_notification(), AFTER INSERT ON split_claims
create_split_initiated_notification(db, new) ==
  LET item_info == get_split_claim_item_info(new.item_id) IN
  InsertNotifications(db,
    {Notification(friend_id, "split_initiated", new.initiated_by, new.id,
                  new.item_id, item_info.wishlist_id, NULL) :
       friend_id \in {g \in FriendIdsOf(new.initiated_by) :
                        g # item_info.wishlist_owner_id}})

\* create_split_joined_notification as it would be if it left out the
\* initiator of the split rather than the user who joined.
create_split_joined_notification_ExcludeInitiator(db, new) ==
  LET split_info == CHOOSE s \in db.split_claims : s.id = new.split_claim_id
      item_info == get_split_claim_item_info(split_info.item_id)
  IN IF split_info.initiated_by = new.user_id THEN db
     ELSE notify_split_participants(db, new.split_claim_id, "split_joined",
            new.user_id, split_info.initiated_by, split_info.item_id,
            item_info.wishlist_id)

\* create_split_joined_notification(), AFTER INSERT ON split_claim_participants
create_split_joined_notification(db, new) ==
  LET split_info == CHOOSE s \in db.split_claims : s.id = new.split_claim_id
      item_info == get_split_claim_item_info(split_info.item_id)
  IN IF split_info.initiated_by = new.user_id THEN db
     ELSE notify_split_participants(db, new.split_claim_id, "split_joined",
            new.user_id, new.user_id, split_info.item_id, item_info.wishlist_id)

\* create_split_left_notification(), BEFORE DELETE ON split_claim_participants
create_split_left_notification(db, old) ==
  IF ~\E s \in db.split_claims : s.id = old.split_claim_id THEN db
  ELSE LET split_info == CHOOSE s \in db.split_claims : s.id = old.split_claim_id
           item_info == get_split_claim_item_info(split_info.item_id)
       IN IF split_info.initiated_by = old.user_id THEN db
          ELSE notify_split_participants(db, old.split_claim_id, "split_left",
                 old.user_id, old.user_id, split_info.item_id, item_info.wishlist_id)

\* create_split_confirmed_notification as it would be without its test of
\* OLD.status and NEW.status.
create_split_confirmed_notification_AnyUpdate(db, old, new) ==
  notify_split_participants(db, new.id, "split_confirmed", new.initiated_by,
    NULL, new.item_id, get_split_claim_item_info(new.item_id).wishlist_id)

\* create_split_confirmed_notification(), AFTER UPDATE ON split_claims
create_split_confirmed_notification(db, old, new) ==
  IF old.status = "pending" /\ new.status = "confirmed"
  THEN notify_split_participants(db, new.id, "split_confirmed", new.initiated_by,
         NULL, new.item_id, get_split_claim_item_info(new.item_id).wishlist_id)
  ELSE db

\* create_split_cancelled_notification as it would be if its rows referred to
\* the split claim that is being deleted.
create_split_cancelled_notification_WithSplitId(db, old) ==
  IF old.status # "pending" THEN db
  ELSE InsertNotifications(db,
         {Notification(p.user_id, "split_cancelled", old.initiated_by, old.id,
                       old.item_id, get_split_claim_item_info(old.item_id).wishlist_id,
                       NULL) :
            p \in {q \in db.split_claim_participants :
                     q.split_claim_id = old.id /\ q.user_id # old.initiated_by}})

\* create_split_cancelled_notification(), BEFORE DELETE ON split_claims
create_split_cancelled_notification(db, old) ==
  IF old.status # "pending" THEN db
  ELSE InsertNotifications(db,
         {Notification(p.user_id, "split_cancelled", old.initiated_by, NULL,
                       old.item_id, get_split_claim_item_info(old.item_id).wishlist_id,
                       NULL) :
            p \in {q \in db.split_claim_participants :
                     q.split_claim_id = old.id /\ q.user_id # old.initiated_by}})

\* ------------------------------------------------------- row-level security
\* Each policy is a predicate of the caller (auth.uid()) and the row.

\* The SELECT policy of item_claims as it would be without the exclusion of
\* the wishlist's owner.
item_claims_select_policy_NoOwnerExclusion(uid, row) ==
  \E i \in DOMAIN wishlist_items :
    /\ i = row.item_id
    /\ can_view_wishlist(WishlistOf(i), uid)

\* The condition the claim policies share:
\*   EXISTS (wishlist_items JOIN wishlists WHERE wishlist_items.id = item_id
\*           AND wishlists.user_id != auth.uid() AND can_view_wishlist(wishlists.id, auth.uid()))
\* policy "Users can view claims on others wishlists" ON item_claims FOR SELECT
item_claims_select_policy(uid, row) ==
  \E i \in DOMAIN wishlist_items :
    /\ i = row.item_id
    /\ OwnerOf(i) # uid
    /\ can_view_wishlist(WishlistOf(i), uid)

\* The INSERT policy of item_claims as it would be without the exclusion of
\* the wishlist's owner.
item_claims_insert_policy_NoOwnerExclusion(uid, new) ==
  /\ uid = new.claimed_by
  /\ \E i \in DOMAIN wishlist_items :
       /\ i = new.item_id
       /\ can_view_wishlist(WishlistOf(i), uid)

\* policy "Users can claim items on viewable wishlists" ON item_claims FOR INSERT
item_claims_insert_policy(uid, new) ==
  /\ uid = new.claimed_by
  /\ \E i \in DOMAIN wishlist_items :
       /\ i = new.item_id
       /\ OwnerOf(i) # uid
       /\ can_view_wishlist(WishlistOf(i), uid)

\* policy "Users can view split claims on viewable wishlists" ON split_claims FOR SELECT
split_claims_select_policy(uid, row) ==
  \E i \in DOMAIN wishlist_items :
    /\ i = row.item_id
    /\ OwnerOf(i) # uid
    /\ can_view_wishlist(WishlistOf(i), uid)

\* policy "Users can initiate split claims on viewable wishlists" ON split_claims FOR INSERT
split_claims_insert_policy(uid, new) ==
  /\ uid = new.initiated_by
  /\ \E i \in DOMAIN wishlist_items :
       /\ i = new.item_id
       /\ OwnerOf(i) # uid
       /\ can_view_wishlist(WishlistOf(i), uid)

\* policy "Initiator can delete pending split claim" ON split_claims FOR DELETE
split_claims_delete_policy(uid, row) ==
  uid = row.initiated_by /\ row.status = "pending"

\* policy "Users can view split participants" ON split_claim_participants FOR SELECT
split_claim_participants_select_policy(db, uid, row) ==
  \E s \in db.split_claims :
    /\ s.id = row.split_claim_id
    /\ OwnerOf(s.item_id) # uid
    /\ can_view_wishlist(WishlistOf(s.item_id), uid)

\* The INSERT policy of split_claim_participants as it would be without the
\* test of the split's status.
split_claim_participants_insert_policy_AnyStatus(db, uid, new) ==
  /\ uid = new.user_id
  /\ \E s \in db.split_claims :
       /\ s.id = new.split_claim_id
       /\ OwnerOf(s.item_id) # uid
       /\ can_view_wishlist(WishlistOf(s.item_id), uid)

\* policy "Users can join split claims" ON split_claim_participants FOR INSERT
split_claim_participants_insert_policy(db, uid, new) ==
  /\ uid = new.user_id
  /\ \E s \in db.split_claims :
       /\ s.id = new.split_claim_id
       /\ OwnerOf(s.item_id) # uid
       /\ can_view_wishlist(WishlistOf(s.item_id), uid)
       /\ s.status = "pending"

\* policy "Users can leave pending split claims" ON split_claim_participants FOR DELETE
split_claim_participants_delete_policy(db, uid, row) ==
  /\ uid = row.user_id
  /\ \E s \in db.split_claims :
       s.id = row.split_claim_id /\ s.status = "pending"

\* The INSERT policy of item_ownership_flags as it would be without the call
\* of can_view_wishlist.
item_ownership_flags_insert_policy_NoVisibility(uid, new) ==
  /\ uid = new.flagged_by
  /\ \E i \in DOMAIN wishlist_items :
       /\ i = new.item_id
       /\ OwnerOf(i) # uid

\* policy "Users can flag items on viewable wishlists" ON item_ownership_flags FOR INSERT
item_ownership_flags_insert_policy(uid, new) ==
  /\ uid = new.flagged_by
  /\ \E i \in DOMAIN wishlist_items :
       /\ i = new.item_id
       /\ OwnerOf(i) # uid
       /\ can_view_wishlist(WishlistOf(i), uid)

\* policy "Owners can update flags on their items" ON item_ownership_flags FOR UPDATE
item_ownership_flags_update_policy(uid, row) ==
  \E i \in DOMAIN wishlist_items : i = row.item_id /\ OwnerOf(i) = uid

\* The DELETE policy of item_ownership_flags as it would be without the test
\* of the flag's status.
item_ownership_flags_delete_policy_AnyStatus(uid, row) ==
  uid = row.flagged_by

\* policy "Users can delete their own pending flags" ON item_ownership_flags FOR DELETE
item_ownership_flags_delete_policy(uid, row) ==
  uid = row.flagged_by /\ row.status = "pending"

\* ------------------------------------------- constraints and guard triggers

\* prevent_solo_on_split_item(): TRUE when the trigger lets the insert pass.
prevent_solo_on_split_item(db, new) ==
  ~\E s \in db.split_claims : s.item_id = new.item_id

\* prevent_split_on_claimed_item(): TRUE when the trigger lets the insert pass.
prevent_split_on_claimed_item(db, new) ==
  ~\E c \in db.item_claims : c.item_id = new.item_id

\* The constraint this index replaced: UNIQUE(item_id) over the rows of
\* every status.
idx_item_claims_item_id_active_AllStatuses(rows) ==
  \A r1, r2 \in rows : r1.item_id = r2.item_id => r1.id = r2.id

\* CREATE UNIQUE INDEX idx_item_claims_item_id_active ON item_claims(item_id)
\*   WHERE status = 'active': TRUE when the rows satisfy it.
idx_item_claims_item_id_active(rows) ==
  \A r1, r2 \in rows :
    (r1.status = "active" /\ r2.status = "active" /\ r1.item_id = r2.item_id)
      => r1.id = r2.id

\* The index as it would be over (item_id, initiated_by).
idx_split_claims_item_id_active_PerInitiator(rows) ==
  \A r1, r2 \in rows :
    (/\ r1.claim_status = "active" /\ r2.claim_status = "active"
     /\ r1.item_id = r2.item_id /\ r1.initiated_by = r2.initiated_by)
      => r1.id = r2.id

\* CREATE UNIQUE INDEX idx_split_claims_item_id_active ON split_claims(item_id)
\*   WHERE claim_status = 'active'
idx_split_claims_item_id_active(rows) ==
  \A r1, r2 \in rows :
    (r1.claim_status = "active" /\ r2.claim_status = "active" /\ r1.item_id = r2.item_id)
      => r1.id = r2.id

\* The constraint as it would be if it were partial like those of the claim
\* tables: one pending flag per item.
item_ownership_flags_item_id_key_PendingOnly(rows) ==
  \A r1, r2 \in rows :
    (r1.status = "pending" /\ r2.status = "pending" /\ r1.item_id = r2.item_id)
      => r1.id = r2.id

\* item_ownership_flags: UNIQUE(item_id)
item_ownership_flags_item_id_key(rows) ==
  \A r1, r2 \in rows : r1.item_id = r2.item_id => r1.id = r2.id

\* split_claim_participants is keyed by (split_claim_id, user_id).
split_claim_participants_pkey(rows, new) ==
  ~\E p \in rows : p.split_claim_id = new.split_claim_id /\ p.user_id = new.user_id

\* ---------------------------------------------- statements and their triggers

ParticipantsOf(db, split_claim_id) ==
  {p \in db.split_claim_participants : p.split_claim_id = split_claim_id}

\* UPDATE split_claims of one row, with its AFTER UPDATE trigger
\* on_split_claim_confirmed.
UpdateSplitClaim(db, old, new) ==
  create_split_confirmed_notification(
    [db EXCEPT !.split_claims = (@ \ {old}) \cup {new}], old, new)

\* check_split_claim_completion as it would be with > for >=.
check_split_claim_completion_Above(db, new) ==
  LET participant_count == Cardinality(ParticipantsOf(db, new.split_claim_id))
      sc == CHOOSE s \in db.split_claims : s.id = new.split_claim_id
      target == sc.target_participants
      current_status == sc.status
  IN IF participant_count > target /\ current_status = "pending"
     THEN UpdateSplitClaim(db, sc, [sc EXCEPT !.status = "confirmed",
                                              !.confirmed_at = TRUE])
     ELSE db

\* check_split_claim_completion(), AFTER INSERT ON split_claim_participants
check_split_claim_completion(db, new) ==
  LET participant_count == Cardinality(ParticipantsOf(db, new.split_claim_id))
      sc == CHOOSE s \in db.split_claims : s.id = new.split_claim_id
      target == sc.target_participants
      current_status == sc.status
  IN IF participant_count >= target /\ current_status = "pending"
     THEN UpdateSplitClaim(db, sc, [sc EXCEPT !.status = "confirmed",
                                              !.confirmed_at = TRUE])
     ELSE db

\* INSERT INTO split_claim_participants of one row, with its AFTER INSERT
\* triggers (the completion check and on_split_participant_joined).
InsertParticipant(db, new) ==
  create_split_joined_notification(
    check_split_claim_completion(
      [db EXCEPT !.split_claim_participants = @ \cup {new}], new),
    new)

\* DELETE FROM split_claim_participants of one row, with its BEFORE DELETE
\* trigger on_split_participant_left.
DeleteParticipant(db, old) ==
  [create_split_left_notification(db, old)
     EXCEPT !.split_claim_participants = @ \ {old}]

RECURSIVE DeleteParticipants(_, _)
DeleteParticipants(db, rows) ==
  IF rows = {} THEN db
  ELSE LET r == CHOOSE x \in rows : TRUE
       IN DeleteParticipants(DeleteParticipant(db, r), rows \ {r})

\* The delete of a split claim as it would be if its participants did not
\* go with it.
DeleteSplitClaim_NoCascade(db, old) ==
  LET d1 == create_split_cancelled_notification(db, old)
      d2 == [d1 EXCEPT !.split_claims = @ \ {old}]
  IN [d2 EXCEPT !.notifications = CascadeNotificationsOfSplit(@, old.id)]

\* DELETE FROM split_claims of one row: the BEFORE DELETE trigger
\* on_split_claim_cancelled, the row's removal, then the ON DELETE CASCADE of
\* its participants (whose own BEFORE DELETE trigger no longer finds the
\* split claim) and of the notifications that reference it.
DeleteSplitClaim(db, old) ==
  LET d1 == create_split_cancelled_notification(db, old)
      d2 == [d1 EXCEPT !.split_claims = @ \ {old}]
      d3 == DeleteParticipants(d2, ParticipantsOf(d2, old.id))
  IN [d3 EXCEPT !.notifications = CascadeNotificationsOfSplit(@, old.id)]

RECURSIVE DeleteSplitClaims(_, _)
DeleteSplitClaims(db, rows) ==
  IF rows = {} THEN db
  ELSE LET r == CHOOSE x \in rows : TRUE
       IN DeleteSplitClaims(DeleteSplitClaim(db, r), rows \ {r})

\* ------------------------------------------------------- ownership flags

\* notify_owner_on_flag_created(), AFTER INSERT ON item_ownership_flags
\*   WHEN (new.status = 'pending')
notify_owner_on_flag_created(db, new) ==
  IF new.status = "pending"
  THEN InsertNotifications(db,
         {Notification(OwnerOf(new.item_id), "item_flagged_already_owned",
                       new.flagged_by, NULL, new.item_id, WishlistOf(new.item_id),
                       new.id)})
  ELSE db

\* notify_on_flag_resolution as it would be if it told the flagger of a
\* confirmation only.
notify_on_flag_resolution_ConfirmedOnly(db, old, new) ==
  IF new.status = "confirmed" /\ old.status = "pending"
  THEN InsertNotifications(db,
         {Notification(new.flagged_by, "flag_confirmed", OwnerOf(new.item_id),
                       NULL, new.item_id, WishlistOf(new.item_id), new.id)})
  ELSE db

\* notify_on_flag_resolution(), AFTER UPDATE ON item_ownership_flags
\*   WHEN (new.status IN ('confirmed', 'denied') AND old.status = 'pending')
notify_on_flag_resolution(db, old, new) ==
  IF new.status \in {"confirmed", "denied"} /\ old.status = "pending"
  THEN InsertNotifications(db,
         {Notification(new.flagged_by,
                       IF new.status = "confirmed" THEN "flag_confirmed" ELSE "flag_denied",
                       OwnerOf(new.item_id), NULL, new.item_id,
                       WishlistOf(new.item_id), new.id)})
  ELSE db

\* handle_ownership_flag_confirmed as it would be if it ran on every
\* resolution of a pending flag.
handle_ownership_flag_confirmed_AnyResolution(db, old, new) ==
  IF old.status = "pending"
  THEN LET d1 == [db EXCEPT !.item_claims = {c \in @ : c.item_id # new.item_id}]
       IN DeleteSplitClaims(d1, {s \in d1.split_claims : s.item_id = new.item_id})
  ELSE db

\* handle_ownership_flag_confirmed as it would be if it deleted the solo
\* claims only.
handle_ownership_flag_confirmed_SoloOnly(db, old, new) ==
  IF new.status = "confirmed" /\ old.status = "pending"
  THEN [db EXCEPT !.item_claims = {c \in @ : c.item_id # new.item_id}]
  ELSE db

\* handle_ownership_flag_confirmed(), AFTER UPDATE ON item_ownership_flags
\*   WHEN (new.status = 'confirmed' AND old.status = 'pending')
handle_ownership_flag_confirmed(db, old, new) ==
  IF new.status = "confirmed" /\ old.status = "pending"
  THEN LET d1 == [db EXCEPT !.item_claims = {c \in @ : c.item_id # new.item_id}]
       IN DeleteSplitClaims(d1, {s \in d1.split_claims : s.item_id = new.item_id})
  ELSE db

\* INSERT INTO item_ownership_flags of one row, with trigger_notify_owner_on_flag.
InsertFlag(db, new) ==
  notify_owner_on_flag_created(
    [db EXCEPT !.item_ownership_flags = @ \cup {new}], new)

\* UPDATE item_ownership_flags of one row, with trigger_notify_flag_resolution
\* and trigger_ownership_flag_confirmed (fired in the order of their names).
UpdateFlag(db, old, new) ==
  handle_ownership_flag_confirmed(
    notify_on_flag_resolution(
      [db EXCEPT !.item_ownership_flags = (@ \ {old}) \cup {new}], old, new),
    old, new)

\* The delete of a flag as it would be if the notifications that reference
\* it stayed.
DeleteFlagRow_NoCascade(db, old) ==
  [db EXCEPT !.item_ownership_flags = @ \ {old}]

\* DELETE FROM item_ownership_flags of one row, with the cascade to the
\* notifications that reference it.
DeleteFlagRow(db, old) ==
  [db EXCEPT !.item_ownership_flags = @ \ {old},
             !.notifications = CascadeNotificationsOfFlag(@, old.id)]

\* ------------------------------------------------------------- fulfilment

\* fulfill_claims_for_item as it would be if it notified the caller as well
\* as the participants of the split.
fulfill_claims_for_item_NotifyOwnerToo(db, p_item_id, p_owner_id) ==
  LET solo == {c \in db.item_claims : c.item_id = p_item_id /\ c.status = "active"}
      split == {s \in db.split_claims :
                  s.item_id = p_item_id /\ s.claim_status = "active"}
  IN IF solo # {}
     THEN LET v_solo_claim == CHOOSE c \in solo : TRUE
              d1 == [db EXCEPT !.item_claims =
                       (@ \ {v_solo_claim}) \cup
                         {[v_solo_claim EXCEPT !.status = "fulfilled",
                                               !.fulfilled_at = TRUE]}]
          IN [db |-> InsertNotifications(d1,
                       {Notification(v_solo_claim.claimed_by, "gift_received",
                                     p_owner_id, NULL, p_item_id,
                                     WishlistOf(p_item_id), NULL)}),
              result |-> {[claim_type |-> "solo", claim_id |-> v_solo_claim.id,
                           claimer_ids |-> {v_solo_claim.claimed_by}]}]
     ELSE IF split # {}
     THEN LET v_split_claim == CHOOSE s \in split : TRUE
              d1 == UpdateSplitClaim(db, v_split_claim,
                      [v_split_claim EXCEPT !.claim_status = "fulfilled",
                                            !.fulfilled_at = TRUE])
              v_participant_ids ==
                {p.user_id : p \in ParticipantsOf(d1, v_split_claim.id)}
          IN [db |-> InsertNotifications(d1,
                       {Notification(v_claimer_id, "gift_received", p_owner_id,
                                     NULL, p_item_id, WishlistOf(p_item_id), NULL) :
                          v_claimer_id \in v_participant_ids \cup {p_owner_id}}),
              result |-> {[claim_type |-> "split", claim_id |-> v_split_claim.id,
                           claimer_ids |-> v_participant_ids]}]
     ELSE [db |-> db, result |-> {}]

\* fulfill_claims_for_item as it would be if its solo query had no status
\* filter.
fulfill_claims_for_item_AnyStatus(db, p_item_id, p_owner_id) ==
  LET solo == {c \in db.item_claims : c.item_id = p_item_id}
      split == {s \in db.split_claims :
                  s.item_id = p_item_id /\ s.claim_status = "active"}
  IN IF solo # {}
     THEN LET v_solo_claim == CHOOSE c \in solo : TRUE
              d1 == [db EXCEPT !.item_claims =
                       (@ \ {v_solo_claim}) \cup
                         {[v_solo_claim EXCEPT !.status = "fulfilled",
                                               !.fulfilled_at = TRUE]}]
          IN [db |-> InsertNotifications(d1,
                       {Notification(v_solo_claim.claimed_by, "gift_received",
                                     p_owner_id, NULL, p_item_id,
                                     WishlistOf(p_item_id), NULL)}),
              result |-> {[claim_type |-> "solo", claim_id |-> v_solo_claim.id,
                           claimer_ids |-> {v_solo_claim.claimed_by}]}]
     ELSE IF split # {}
     THEN LET v_split_claim == CHOOSE s \in split : TRUE
              d1 == UpdateSplitClaim(db, v_split_claim,
                      [v_split_claim EXCEPT !.claim_status = "fulfilled",
                                            !.fulfilled_at = TRUE])
              v_participant_ids ==
                {p.user_id : p \in ParticipantsOf(d1, v_split_claim.id)}
          IN [db |-> InsertNotifications(d1,
                       {Notification(v_claimer_id, "gift_received", p_owner_id,
                                     NULL, p_item_id, WishlistOf(p_item_id), NULL) :
                          v_claimer_id \in v_participant_ids}),
              result |-> {[claim_type |-> "split", claim_id |-> v_split_claim.id,
                           claimer_ids |-> v_participant_ids]}]
     ELSE [db |-> db, result |-> {}]

\* fulfill_claims_for_item(p_item_id, p_owner_id): [db, result], result being
\* the set of returned rows (claim_type, claim_id, claimer_ids).
fulfill_claims_for_item(db, p_item_id, p_owner_id) ==
  LET solo == {c \in db.item_claims : c.item_id = p_item_id /\ c.status = "active"}
      split == {s \in db.split_claims :
                  s.item_id = p_item_id /\ s.claim_status = "active"}
  IN IF solo # {}
     THEN LET v_solo_claim == CHOOSE c \in solo : TRUE
              d1 == [db EXCEPT !.item_claims =
                       (@ \ {v_solo_claim}) \cup
                         {[v_solo_claim EXCEPT !.status = "fulfilled",
                                               !.fulfilled_at = TRUE]}]
          IN [db |-> InsertNotifications(d1,
                       {Notification(v_solo_claim.claimed_by, "gift_received",
                                     p_owner_id, NULL, p_item_id,
                                     WishlistOf(p_item_id), NULL)}),
              result |-> {[claim_type |-> "solo", claim_id |-> v_solo_claim.id,
                           claimer_ids |-> {v_solo_claim.claimed_by}]}]
     ELSE IF split # {}
     THEN LET v_split_claim == CHOOSE s \in split : TRUE
              d1 == UpdateSplitClaim(db, v_split_claim,
                      [v_split_claim EXCEPT !.claim_status = "fulfilled",
                                            !.fulfilled_at = TRUE])
              v_participant_ids ==
                {p.user_id : p \in ParticipantsOf(d1, v_split_claim.id)}
          IN [db |-> InsertNotifications(d1,
                       {Notification(v_claimer_id, "gift_received", p_owner_id,
                                     NULL, p_item_id, WishlistOf(p_item_id), NULL) :
                          v_claimer_id \in v_participant_ids}),
              result |-> {[claim_type |-> "split", claim_id |-> v_split_claim.id,
                           claimer_ids |-> v_participant_ids]}]
     ELSE [db |-> db, result |-> {}]

\* ------------------------------------------------------------- operations

TxIds == 1 .. NumTx
IdleTx == [pc |-> "idle"]

\* The row a createSoloClaim inserts (status defaults to 'active').
NewItemClaim(item_id, claimed_by) ==
  [id |-> next_id.claim, item_id |-> item_id, claimed_by |-> claimed_by,
   status |-> "active", fulfilled_at |-> FALSE]

\* The row an initiateSplit inserts (status 'pending', claim_status 'active').
NewSplitClaim(item_id, initiated_by, target_participants) ==
  [id |-> next_id.split, item_id |-> item_id, initiated_by |-> initiated_by,
   target_participants |-> target_participants, status |-> "pending",
   claim_status |-> "active", confirmed_at |-> FALSE, fulfilled_at |-> FALSE]

NewParticipant(split_claim_id, user_id) ==
  [split_claim_id |-> split_claim_id, user_id |-> user_id]

NewFlag(item_id, flagged_by) ==
  [id |-> next_id.flag, item_id |-> item_id, flagged_by |-> flagged_by,
   status |-> "pending"]

\* The database accepts the insert of createSoloClaim(item_id, uid).
CanCreateSoloClaim(db, item_id, uid) ==
  LET new == NewItemClaim(item_id, uid) IN
  /\ item_claims_insert_policy(uid, new)
  /\ prevent_solo_on_split_item(db, new)
  /\ idx_item_claims_item_id_active(db.item_claims \cup {new})

\* The database accepts the inserts of initiateSplit(item_id, uid, target).
CanInitiateSplit(db, item_id, uid, target) ==
  LET new == NewSplitClaim(item_id, uid, target)
      d1 == [db EXCEPT !.split_claims = @ \cup {new}]
  IN /\ target >= 2
     /\ split_claims_insert_policy(uid, new)
     /\ prevent_split_on_claimed_item(db, new)
     /\ idx_split_claims_item_id_active(db.split_claims \cup {new})
     /\ split_claim_participants_insert_policy(d1, uid, NewParticipant(new.id, uid))

\* The database accepts the insert of joinSplit(split_claim_id, uid).
CanJoinSplit(db, split_claim_id, uid) ==
  LET new == NewParticipant(split_claim_id, uid) IN
  /\ split_claim_participants_insert_policy(db, uid, new)
  /\ split_claim_participants_pkey(db.split_claim_participants, new)

\* What an operation returns when the model keeps no value of it.
NoResult == [op |-> "none"]

\* The bound on the notifications kept: the larger one where every other user
\* is a friend of the owner, so that a split of three can fill and confirm.
NotifBound ==
  IF \A u \in Users \ {Owner} : are_friends(Owner, u)
  THEN MaxGroupNotifs ELSE MaxNotifs

\* All tables of db written back, within the bound on the notifications kept.
Commit(db) ==
  /\ BagCardinality(db.notifications) <= NotifBound
  /\ item_claims' = db.item_claims
  /\ split_claims' = db.split_claims
  /\ split_claim_participants' = db.split_claim_participants
  /\ item_ownership_flags' = db.item_ownership_flags
  /\ notifications' = db.notifications

createSoloClaim(item_id, uid) ==
  /\ next_id.claim <= MaxClaims
  /\ CanCreateSoloClaim(Db, item_id, uid)
  /\ Commit([Db EXCEPT !.item_claims = @ \cup {NewItemClaim(item_id, uid)}])
  /\ next_id' = [next_id EXCEPT !.claim = @ + 1]
  /\ returned' = NoResult
  /\ UNCHANGED <<uiVars, envVars, tx>>

cancelSoloClaim(claim_id, uid) ==
  \E c \in item_claims :
    /\ c.id = claim_id
    /\ c.claimed_by = uid
    /\ c.status = "active"
    /\ Commit([Db EXCEPT !.item_claims =
                 (@ \ {c}) \cup {[c EXCEPT !.status = "cancelled"]}])
    /\ returned' = NoResult
    /\ UNCHANGED <<uiVars, envVars, next_id, tx>>

initiateSplit(item_id, uid, target) ==
  /\ next_id.split <= MaxSplits
  /\ CanInitiateSplit(Db, item_id, uid, target)
  /\ LET new == NewSplitClaim(item_id, uid, target)
         d1 == create_split_initiated_notification(
                 [Db EXCEPT !.split_claims = @ \cup {new}], new)
     IN Commit(InsertParticipant(d1, NewParticipant(new.id, uid)))
  /\ next_id' = [next_id EXCEPT !.split = @ + 1]
  /\ returned' = NoResult
  /\ UNCHANGED <<uiVars, envVars, tx>>

joinSplit(split_claim_id, uid) ==
  /\ CanJoinSplit(Db, split_claim_id, uid)
  /\ Commit(InsertParticipant(Db, NewParticipant(split_claim_id, uid)))
  /\ returned' = NoResult
  /\ UNCHANGED <<uiVars, envVars, next_id, tx>>

\* leaveSplit as it would be if the initiator, like any participant, deleted
\* only their own participant row, which the DELETE policy of
\* split_claim_participants lets them do.
leaveSplit_RowOnly(split_claim_id, uid) ==
  \E s \in split_claims, p \in split_claim_participants :
    /\ s.id = split_claim_id
    /\ p = NewParticipant(split_claim_id, uid)
    /\ split_claim_participants_delete_policy(Db, uid, p)
    /\ Commit(DeleteParticipant(Db, p))
    /\ returned' = NoResult
    /\ UNCHANGED <<uiVars, envVars, next_id, tx>>

leaveSplit(split_claim_id, uid) ==
  \E s \in split_claims, p \in split_claim_participants :
    /\ s.id = split_claim_id
    /\ p = NewParticipant(split_claim_id, uid)
    /\ IF s.initiated_by = uid
       THEN /\ split_claims_delete_policy(uid, s)
            /\ Commit(DeleteSplitClaim(Db, s))
       ELSE /\ split_claim_participants_delete_policy(Db, uid, p)
            /\ Commit(DeleteParticipant(Db, p))
    /\ returned' = NoResult
    /\ UNCHANGED <<uiVars, envVars, next_id, tx>>

\* The database accepts the insert of createFlag(item_id, uid).
CanCreateFlag(db, item_id, uid) ==
  LET new == NewFlag(item_id, uid) IN
  /\ item_ownership_flags_insert_policy(uid, new)
  /\ item_ownership_flags_item_id_key(db.item_ownership_flags \cup {new})

createFlag(item_id, uid) ==
  LET new == NewFlag(item_id, uid) IN
  /\ next_id.flag <= MaxFlags
  /\ CanCreateFlag(Db, item_id, uid)
  /\ Commit(InsertFlag(Db, new))
  /\ next_id' = [next_id EXCEPT !.flag = @ + 1]
  /\ returned' = NoResult
  /\ UNCHANGED <<uiVars, envVars, tx>>

\* resolveFlag as it would be without its test that the flag is pending.
resolveFlag_AnyStatus(flag_id, uid, decision) ==
  \E f \in item_ownership_flags :
    /\ f.id = flag_id
    /\ f.status # decision
    /\ item_ownership_flags_update_policy(uid, f)
    /\ Commit(UpdateFlag(Db, f, [f EXCEPT !.status = decision]))
    /\ returned' = NoResult
    /\ UNCHANGED <<uiVars, envVars, next_id, tx>>

resolveFlag(flag_id, uid, decision) ==
  \E f \in item_ownership_flags :
    /\ f.id = flag_id
    /\ f.status = "pending"
    /\ item_ownership_flags_update_policy(uid, f)
    /\ Commit(UpdateFlag(Db, f, [f EXCEPT !.status = decision]))
    /\ returned' = NoResult
    /\ UNCHANGED <<uiVars, envVars, next_id, tx>>

deleteFlag(flag_id, uid) ==
  \E f \in item_ownership_flags :
    /\ f.id = flag_id
    /\ item_ownership_flags_delete_policy(uid, f)
    /\ Commit(DeleteFlagRow(Db, f))
    /\ returned' = NoResult
    /\ UNCHANGED <<uiVars, envVars, next_id, tx>>

fulfillClaimsForItem(item_id, uid) ==
  /\ uid = OwnerOf(item_id)
  /\ LET r == fulfill_claims_for_item(Db, item_id, uid)
     IN /\ Commit(r.db)
        /\ returned' = [op |-> "fulfillClaimsForItem", result |-> r.result]
  /\ UNCHANGED <<uiVars, envVars, next_id, tx>>

\* fulfill_claims_for_item called directly, as the database lets any signed-in
\* user call it: the function is SECURITY DEFINER, compares p_owner_id with
\* nothing and never reads auth.uid(), so any value of p_owner_id, NULL
\* included, runs the same statements.
call_fulfill_claims_for_item(p_item_id, p_owner_id) ==
  /\ LET r == fulfill_claims_for_item(Db, p_item_id, p_owner_id)
     IN /\ Commit(r.db)
        /\ returned' = [op |-> "fulfill_claims_for_item", result |-> r.result]
  /\ UNCHANGED <<uiVars, envVars, next_id, tx>>

\* ---------------------------------------------- visibility and its inputs

\* A caller asks whether viewer_id may see the wishlist.
viewWishlist(wishlist_id, viewer_id) ==
  /\ returned' = [op |-> "canView", wishlist_id |-> wishlist_id,
                  viewer_id |-> viewer_id,
                  value |-> can_view_wishlist(wishlist_id, viewer_id)]
  /\ UNCHANGED <<uiVars, envVars, claimVars, item_ownership_flags, notifications,
                 next_id, tx>>

\* policy "Users can remove friendships" ON friendships FOR DELETE
friendships_delete_policy(uid, row) ==
  uid = row.requester_id \/ uid = row.addressee_id

\* The cleanup with its second branch left out: only the requester's wishlists
\* lose the addressee.
cleanup_wishlist_selected_friends_on_unfriend_OneDirection(rows, old) ==
  {sf \in rows :
     ~ /\ sf.wishlist_id \in {w \in DOMAIN wishlists :
                                wishlists[w].user_id = old.requester_id}
       /\ sf.friend_id = old.addressee_id}

\* cleanup_wishlist_selected_friends_on_unfriend(): the allowlist rows left.
cleanup_wishlist_selected_friends_on_unfriend(rows, old) ==
  {sf \in rows :
     ~ \/ /\ sf.wishlist_id \in {w \in DOMAIN wishlists :
                                   wishlists[w].user_id = old.requester_id}
          /\ sf.friend_id = old.addressee_id
       \/ /\ sf.wishlist_id \in {w \in DOMAIN wishlists :
                                   wishlists[w].user_id = old.addressee_id}
          /\ sf.friend_id = old.requester_id}

removeFriendship(f, uid) ==
  /\ f \in friendships
  /\ friendships_delete_policy(uid, f)
  /\ friendships' = friendships \ {f}
  /\ wishlist_selected_friends' =
       cleanup_wishlist_selected_friends_on_unfriend(wishlist_selected_friends, f)
  /\ returned' = NoResult
  /\ UNCHANGED <<uiVars, wishlists, wishlist_items, claimVars, item_ownership_flags,
                 notifications, next_id, tx>>

\* notify_friends(): one row for every accepted friend of p_user_id.
notify_friends(db, p_user_id, p_type, p_wishlist_id, p_item_id) ==
  InsertNotifications(db,
    {Notification(friend_id, p_type, p_user_id, NULL, p_item_id, p_wishlist_id, NULL) :
       friend_id \in FriendIdsOf(p_user_id)})

\* create_wishlist_notification(): the trigger of an inserted wishlists row.
create_wishlist_notification(db, new) ==
  IF new.privacy # "private"
  THEN notify_friends(db, new.user_id, "wishlist_created", new.id, NULL)
  ELSE db

\* create_item_added_notification(): the trigger of an inserted
\* wishlist_items row.
create_item_added_notification(db, new) ==
  IF new.wishlist_id \in DOMAIN wishlists
       /\ wishlists[new.wishlist_id].privacy # "private"
  THEN notify_friends(db, wishlists[new.wishlist_id].user_id, "item_added",
                      new.wishlist_id, new.id)
  ELSE db

\* policy "Users can create their own wishlists" ON wishlists FOR INSERT
wishlists_insert_policy(uid, row) == uid = row.user_id

\* policy "Users can create items in their own wishlists" ON wishlist_items
wishlist_items_insert_policy(uid, row) ==
  \E w \in DOMAIN wishlists : w = row.wishlist_id /\ wishlists[w].user_id = uid

createWishlist(wishlist_id, uid, privacy) ==
  LET new == [id |-> wishlist_id, user_id |-> uid, privacy |-> privacy] IN
  /\ wishlist_id \notin DOMAIN wishlists
  /\ wishlists_insert_policy(uid, new)
  /\ wishlists' = wishlists @@ (wishlist_id :> [user_id |-> uid, privacy |-> privacy])
  /\ Commit(create_wishlist_notification(Db, new))
  /\ returned' = NoResult
  /\ UNCHANGED <<uiVars, wishlist_items, friendships, wishlist_selected_friends,
                 next_id, tx>>

addItem(item_id, wishlist_id, uid) ==
  LET new == [id |-> item_id, wishlist_id |-> wishlist_id] IN
  /\ item_id \notin DOMAIN wishlist_items
  /\ wishlist_items_insert_policy(uid, new)
  /\ wishlist_items' = wishlist_items @@ (item_id :> [wishlist_id |-> wishlist_id])
  /\ Commit(create_item_added_notification(Db, new))
  /\ returned' = NoResult
  /\ UNCHANGED <<uiVars, wishlists, friendships, wishlist_selected_friends,
                 next_id, tx>>

\* policy "Users can send friend requests" ON friendships FOR INSERT
friendships_insert_policy(uid, row) == uid = row.requester_id

\* policy "Addressee can respond to friend requests" ON friendships FOR UPDATE
friendships_update_policy(uid, row) == uid = row.addressee_id

\* A friend request: a pending row, for a pair that has no row yet.
sendFriendRequest(uid, addressee_id) ==
  LET new == [requester_id |-> uid, addressee_id |-> addressee_id,
              status |-> "pending"] IN
  /\ uid # addressee_id
  /\ friendships_insert_policy(uid, new)
  /\ ~ \E f \in friendships :
         {f.requester_id, f.addressee_id} = {uid, addressee_id}
  /\ friendships' = friendships \cup {new}
  /\ returned' = NoResult
  /\ UNCHANGED <<uiVars, wishlists, wishlist_items, wishlist_selected_friends,
                 claimVars, item_ownership_flags, notifications, next_id, tx>>

\* The addressee accepts a pending request.
acceptFriendRequest(f, uid) ==
  /\ f \in friendships
  /\ f.status = "pending"
  /\ friendships_update_policy(uid, f)
  /\ friendships' = (friendships \ {f}) \cup {[f EXCEPT !.status = "accepted"]}
  /\ returned' = NoResult
  /\ UNCHANGED <<uiVars, wishlists, wishlist_items, wishlist_selected_friends,
                 claimVars, item_ownership_flags, notifications, next_id, tx>>

\* policy "Users can update their own wishlists" ON wishlists FOR UPDATE
wishlists_update_policy(uid, row) == uid = row.user_id

updateWishlistPrivacy(wishlist_id, uid, privacy) ==
  /\ wishlists_update_policy(uid, wishlists[wishlist_id])
  /\ wishlists[wishlist_id].privacy # privacy
  /\ wishlists' = [wishlists EXCEPT ![wishlist_id].privacy = privacy]
  /\ returned' = NoResult
  /\ UNCHANGED <<uiVars, wishlist_items, friendships, wishlist_selected_friends,
                 claimVars, item_ownership_flags, notifications, next_id, tx>>

\* policies "Users can add selected friends to their own wishlists" and
\* "Users can remove selected friends from their own wishlists"
wishlist_selected_friends_policy(uid, row) ==
  \E w \in DOMAIN wishlists : w = row.wishlist_id /\ wishlists[w].user_id = uid

addSelectedFriend(wishlist_id, uid, friend_id) ==
  LET new == [wishlist_id |-> wishlist_id, friend_id |-> friend_id] IN
  /\ new \notin wishlist_selected_friends
  /\ friend_id # uid
  /\ wishlist_selected_friends_policy(uid, new)
  /\ wishlist_selected_friends' = wishlist_selected_friends \cup {new}
  /\ returned' = NoResult
  /\ UNCHANGED <<uiVars, wishlists, wishlist_items, friendships, claimVars,
                 item_ownership_flags, notifications, next_id, tx>>

removeSelectedFriend(wishlist_id, uid, friend_id) ==
  LET old == [wishlist_id |-> wishlist_id, friend_id |-> friend_id] IN
  /\ old \in wishlist_selected_friends
  /\ wishlist_selected_friends_policy(uid, old)
  /\ wishlist_selected_friends' = wishlist_selected_friends \ {old}
  /\ returned' = NoResult
  /\ UNCHANGED <<uiVars, wishlists, wishlist_items, friendships, claimVars,
                 item_ownership_flags, notifications, next_id, tx>>

\* ------------------------------------------- concurrent create transactions
\* A create transaction runs in two steps that other transactions may
\* interleave with: first the row-level-security check and the BEFORE INSERT
\* existence-check trigger, which read what is committed; then the insert
\* itself, where the unique index decides, and the commit.

txCheck(t, kind, item_id, uid, target) ==
  /\ tx[t].pc = "idle"
  /\ LET allowed == IF kind = "solo"
                    THEN item_claims_insert_policy(uid, NewItemClaim(item_id, uid))
                    ELSE split_claims_insert_policy(uid,
                           NewSplitClaim(item_id, uid, target))
         free == IF kind = "solo"
                 THEN prevent_solo_on_split_item(Db, NewItemClaim(item_id, uid))
                 ELSE prevent_split_on_claimed_item(Db,
                        NewSplitClaim(item_id, uid, target))
     IN tx' = [tx EXCEPT ![t] =
                 [pc |-> IF kind = "split" /\ target < 2 THEN "invalid"
                         ELSE IF ~allowed THEN "forbidden"
                         ELSE IF ~free THEN "conflict"
                         ELSE "checked",
                  kind |-> kind, item_id |-> item_id, uid |-> uid,
                  target |-> target]]
  /\ UNCHANGED <<uiVars, envVars, claimVars, item_ownership_flags, notifications,
                 next_id, returned>>

txInsert(t) ==
  /\ tx[t].pc = "checked"
  /\ LET r == tx[t] IN
     IF r.kind = "solo"
     THEN LET new == NewItemClaim(r.item_id, r.uid) IN
          IF idx_item_claims_item_id_active(item_claims \cup {new})
          THEN /\ next_id.claim <= MaxClaims
               /\ Commit([Db EXCEPT !.item_claims = @ \cup {new}])
               /\ next_id' = [next_id EXCEPT !.claim = @ + 1]
               /\ tx' = [tx EXCEPT ![t].pc = "committed"]
          ELSE /\ tx' = [tx EXCEPT ![t].pc = "conflict"]
               /\ UNCHANGED <<claimVars, item_ownership_flags, notifications, next_id>>
     ELSE LET new == NewSplitClaim(r.item_id, r.uid, r.target)
              d1 == create_split_initiated_notification(
                      [Db EXCEPT !.split_claims = @ \cup {new}], new)
          IN IF idx_split_claims_item_id_active(split_claims \cup {new})
             THEN /\ next_id.split <= MaxSplits
                  /\ Commit(InsertParticipant(d1, NewParticipant(new.id, r.uid)))
                  /\ next_id' = [next_id EXCEPT !.split = @ + 1]
                  /\ tx' = [tx EXCEPT ![t].pc = "committed"]
             ELSE /\ tx' = [tx EXCEPT ![t].pc = "conflict"]
                  /\ UNCHANGED <<claimVars, item_ownership_flags, notifications, next_id>>
  /\ UNCHANGED <<uiVars, envVars, returned>>

\* --------------------------------------------- concurrent join transactions
\* A join transaction runs in two steps that other transactions may
\* interleave with. First the INSERT INTO split_claim_participants with its
\* policy and its AFTER INSERT triggers, which read the committed rows and
\* the transaction's own row: check_split_claim_completion decides there
\* whether it confirms the split, and create_split_joined_notification whom
\* it tells. Then the commit, where the primary key decides between two
\* inserts of the same row and the UPDATE of the split, whose row lock is
\* held until then, takes effect with its AFTER UPDATE trigger.

txJoinInsert(t, split_claim_id, uid) ==
  /\ tx[t].pc = "idle"
  /\ LET new == NewParticipant(split_claim_id, uid)
         allowed == split_claim_participants_insert_policy(Db, uid, new)
         d1 == [Db EXCEPT !.split_claim_participants = @ \cup {new}]
     IN tx' = [tx EXCEPT ![t] =
                 IF ~allowed
                 THEN [pc |-> "forbidden", kind |-> "join",
                       split_claim_id |-> split_claim_id, uid |-> uid]
                 ELSE [pc |-> "inserted", kind |-> "join",
                       split_claim_id |-> split_claim_id, uid |-> uid,
                       confirm |-> check_split_claim_completion(d1, new).split_claims
                                     # d1.split_claims,
                       joined |-> create_split_joined_notification(d1, new).notifications
                                    (-) notifications]]
  /\ UNCHANGED <<uiVars, envVars, claimVars, item_ownership_flags, notifications,
                 next_id, returned>>

txJoinCommit(t) ==
  /\ tx[t].pc = "inserted"
  /\ LET r == tx[t]
         new == NewParticipant(r.split_claim_id, r.uid)
         sc == CHOOSE s \in split_claims : s.id = r.split_claim_id
         d1 == [Db EXCEPT !.split_claim_participants = @ \cup {new},
                          !.notifications = @ (+) r.joined]
         d2 == IF r.confirm
               THEN UpdateSplitClaim(d1, sc, [sc EXCEPT !.status = "confirmed",
                                                        !.confirmed_at = TRUE])
               ELSE d1
     IN IF split_claim_participants_pkey(split_claim_participants, new)
        THEN /\ Commit(d2)
             /\ tx' = [tx EXCEPT ![t].pc = "committed"]
        ELSE /\ tx' = [tx EXCEPT ![t].pc = "conflict"]
             /\ UNCHANGED <<claimVars, item_ownership_flags, notifications>>
  /\ UNCHANGED <<uiVars, envVars, next_id, returned>>

\* ------------------------------------------- the client: useNotifications
\* The signed-in user's rows of the notifications table with the columns the
\* hook reads (id, status, is_read), the postgres_changes events on their way
\* to the subscribed channel, and the hook's state.

MaxEvents == 2
MaxPending == 1

NotifIds == {1, 2}

\* No row of that id yet, and a row that was deleted (an id is never reused).
NoRow == [status |-> "none", is_read |-> FALSE]

DeletedRow == [status |-> "deleted", is_read |-> FALSE]

InboxRow(is_read) == [status |-> "inbox", is_read |-> is_read]

RowExists(rows, id) == rows[id].status \in {"inbox", "archived"}

\* The ids, newest first.
IdsDesc ==
  [i \in 1 .. Cardinality(NotifIds) |-> Cardinality(NotifIds) + 1 - i]

\* getNotifications(50, "inbox"): the inbox rows, newest first.
getNotifications(rows) ==
  LET ids == SelectSeq(IdsDesc, LAMBDA id : rows[id].status = "inbox")
  IN [i \in 1 .. Len(ids) |-> [id |-> ids[i], is_read |-> rows[ids[i]].is_read]]

\* getUnreadCount(): the unread rows of the inbox.
getUnreadCount(rows) ==
  Cardinality({id \in NotifIds : rows[id].status = "inbox" /\ ~ rows[id].is_read})

\* What fetchNotifications sets once both answers are there.
fetchNotifications(rows) ==
  [notifications |-> getNotifications(rows), unreadCount |-> getUnreadCount(rows)]

\* The failure branch without its refetch: the optimistic state stays.
revertOnError_KeepOptimistic(h, rows) == h

\* if (result.error) await fetchNotifications()
revertOnError(h, rows) == fetchNotifications(rows)

\* Math.max(0, n)
Max0(n) == IF n < 0 THEN 0 ELSE n

\* prev.find((n) => n.id === id) is an unread notification
FindsUnread(list, id) ==
  \E i \in 1 .. Len(list) :
    /\ list[i].id = id
    /\ ~ list[i].is_read
    /\ \A j \in 1 .. i - 1 : list[j].id # id

InList(list, id) == \E i \in 1 .. Len(list) : list[i].id = id

WithoutId(list, id) == SelectSeq(list, LAMBDA n : n.id # id)

UnreadInList(list) == Cardinality({i \in 1 .. Len(list) : ~ list[i].is_read})

Event(event, id, old, new) ==
  [event |-> event, id |-> id, old |-> old, new |-> new]

\* What a call remembers of the state it started from: the list and count
\* the hook showed, when they were the server's; nothing otherwise.
NoBefore == [notifications |-> <<>>, unreadCount |-> 0 - 1]

Before ==
  IF useNotifications = fetchNotifications(userNotifications)
  THEN useNotifications ELSE NoBefore

Call(action, id, pc, before) ==
  [action |-> action, id |-> id, pc |-> pc, before |-> before]

LocalActions ==
  {"markAsRead", "markAllAsRead", "archiveNotification", "archiveAllRead"}

LocalCalls == {p \in pending : p.action \in LocalActions}

nonHookVars == <<dbVars, useDialogForm, useDialogReset>>

\* The optimistic part of a local action and the call that then awaits the
\* server action's result.
StartCall(action, id, h) ==
  /\ Cardinality(LocalCalls) < MaxPending
  /\ useNotifications' = h
  /\ pending' = pending \cup {Call(action, id, "await action", Before)}
  /\ returned' = NoResult
  /\ UNCHANGED <<userNotifications, realtime, nonHookVars>>

markAsRead(notificationId) ==
  LET h == useNotifications IN
  IF ~ FindsUnread(h.notifications, notificationId)
  THEN /\ returned # NoResult
       /\ returned' = NoResult
       /\ UNCHANGED <<userNotifications, realtime, useNotifications, pending,
                      nonHookVars>>
  ELSE StartCall("markAsRead", notificationId,
         [notifications |->
            [i \in 1 .. Len(h.notifications) |->
               IF h.notifications[i].id = notificationId
               THEN [h.notifications[i] EXCEPT !.is_read = TRUE]
               ELSE h.notifications[i]],
          unreadCount |-> Max0(h.unreadCount - 1)])

markAllAsRead ==
  LET h == useNotifications IN
  StartCall("markAllAsRead", 0,
    [notifications |->
       [i \in 1 .. Len(h.notifications) |->
          [h.notifications[i] EXCEPT !.is_read = TRUE]],
     unreadCount |-> 0])

archiveNotification(notificationId) ==
  LET h == useNotifications
      wasUnread == FindsUnread(h.notifications, notificationId)
  IN StartCall("archiveNotification", notificationId,
       [notifications |-> WithoutId(h.notifications, notificationId),
        unreadCount |-> IF wasUnread THEN Max0(h.unreadCount - 1)
                        ELSE h.unreadCount])

archiveAllRead ==
  LET h == useNotifications IN
  StartCall("archiveAllRead", 0,
    [h EXCEPT !.notifications = SelectSeq(@, LAMBDA n : ~ n.is_read)])

\* The rows a server action updates, and what it makes of each.
Touched(p, rows) ==
  CASE p.action = "markAsRead" -> {id \in {p.id} : RowExists(rows, id)}
    [] p.action = "markAllAsRead" ->
         {id \in NotifIds : rows[id].status = "inbox" /\ ~ rows[id].is_read}
    [] p.action = "archiveNotification" -> {id \in {p.id} : RowExists(rows, id)}
    [] p.action = "archiveAllRead" ->
         {id \in NotifIds : rows[id].status = "inbox" /\ rows[id].is_read}

Updated(p, row) ==
  IF p.action \in {"markAsRead", "markAllAsRead"}
  THEN [row EXCEPT !.is_read = TRUE]
  ELSE [row EXCEPT !.status = "archived"]

\* The UPDATE events of the touched rows, in the order of their ids.
UpdateEvents(p, rows) ==
  LET ids == SelectSeq([i \in 1 .. Cardinality(NotifIds) |-> i],
                       LAMBDA id : id \in Touched(p, rows))
  IN [i \in 1 .. Len(ids) |->
        Event("UPDATE", ids[i], rows[ids[i]], Updated(p, rows[ids[i]]))]

\* The server action of a call succeeds: the rows change, their UPDATE events
\* are on their way, and the call returns.
actionSucceeds(p) ==
  /\ p \in pending
  /\ p.pc = "await action"
  /\ Len(realtime) + Cardinality(Touched(p, userNotifications)) <= MaxEvents
  /\ userNotifications' =
       [id \in NotifIds |->
          IF id \in Touched(p, userNotifications)
          THEN Updated(p, userNotifications[id]) ELSE userNotifications[id]]
  /\ realtime' = realtime \o UpdateEvents(p, userNotifications)
  /\ pending' = pending \ {p}
  /\ UNCHANGED <<useNotifications, returned, nonHookVars>>

\* The server action of a call fails: no row changes, and the hook refetches.
actionFails(p) ==
  /\ p \in pending
  /\ p.pc = "await action"
  /\ pending' = (pending \ {p}) \cup {[p EXCEPT !.pc = "await fetch"]}
  /\ UNCHANGED <<userNotifications, realtime, useNotifications, returned,
                 nonHookVars>>

\* The refetch after a failure is answered, and the call returns its error.
revertDone(p) ==
  /\ p \in pending
  /\ p.action \in LocalActions
  /\ p.pc = "await fetch"
  /\ useNotifications' = revertOnError(useNotifications, userNotifications)
  /\ pending' = pending \ {p}
  /\ returned' = [op |-> p.action, id |-> p.id, error |-> TRUE]
  /\ UNCHANGED <<userNotifications, realtime, nonHookVars>>

\* A fetch of the initial effect or of the UPDATE handler is answered.
fetchDone(p) ==
  /\ p \in pending
  /\ p.action = "fetchNotifications"
  /\ useNotifications' = fetchNotifications(userNotifications)
  /\ pending' = pending \ {p}
  /\ UNCHANGED <<userNotifications, realtime, returned, nonHookVars>>

\* The INSERT handler up to its await: the row is asked for.
onInsert(ev) ==
  /\ pending' = IF ev.new.status = "inbox"
                THEN pending \cup {Call("select", ev.id, "await select", NoBefore)}
                ELSE pending
  /\ UNCHANGED useNotifications

\* The INSERT handler after its await: with the row, or with an error when
\* the row is gone.
selectDone(p) ==
  /\ p \in pending
  /\ p.action = "select"
  /\ LET h == useNotifications
         row == userNotifications[p.id]
     IN useNotifications' =
          IF RowExists(userNotifications, p.id)
          THEN [notifications |->
                  <<[id |-> p.id, is_read |-> row.is_read]>> \o h.notifications,
                unreadCount |-> h.unreadCount + 1]
          ELSE [h EXCEPT !.unreadCount = @ + 1]
  /\ pending' = pending \ {p}
  /\ UNCHANGED <<userNotifications, realtime, returned, nonHookVars>>

\* The UPDATE handler.
onUpdate(ev) ==
  LET h == useNotifications
      list == h.notifications
  IN IF ev.new.status = "archived"
     THEN /\ useNotifications' =
               [notifications |-> WithoutId(list, ev.id),
                unreadCount |-> IF FindsUnread(list, ev.id)
                                THEN Max0(h.unreadCount - 1) ELSE h.unreadCount]
          /\ UNCHANGED pending
     ELSE /\ useNotifications' =
               [notifications |->
                  [i \in 1 .. Len(list) |->
                     IF list[i].id = ev.id
                     THEN [list[i] EXCEPT !.is_read = ev.new.is_read]
                     ELSE list[i]],
                unreadCount |->
                  IF ev.old.is_read # ev.new.is_read
                  THEN IF ev.new.is_read THEN Max0(h.unreadCount - 1)
                       ELSE h.unreadCount + 1
                  ELSE h.unreadCount]
          /\ pending' = IF InList(list, ev.id) THEN pending
                        ELSE pending \cup
                               {Call("fetchNotifications", 0, "await fetch", NoBefore)}

\* The DELETE handler.
onDelete(ev) ==
  LET h == useNotifications IN
  /\ useNotifications' =
       [notifications |-> WithoutId(h.notifications, ev.id),
        unreadCount |-> IF FindsUnread(h.notifications, ev.id)
                        THEN Max0(h.unreadCount - 1) ELSE h.unreadCount]
  /\ UNCHANGED pending

\* The channel delivers its next event to the handler of its kind.
deliver ==
  /\ realtime # <<>>
  /\ LET ev == Head(realtime) IN
       CASE ev.event = "INSERT" -> onInsert(ev)
         [] ev.event = "UPDATE" -> onUpdate(ev)
         [] ev.event = "DELETE" -> onDelete(ev)
  /\ realtime' = Tail(realtime)
  /\ UNCHANGED <<userNotifications, returned, nonHookVars>>

\* A trigger of the database adds a notification for the user.
serverInsert(id) ==
  /\ userNotifications[id] = NoRow
  /\ \A older \in NotifIds : older < id => userNotifications[older] # NoRow
  /\ Len(realtime) < MaxEvents
  /\ userNotifications' = [userNotifications EXCEPT ![id] = InboxRow(FALSE)]
  /\ realtime' = Append(realtime, Event("INSERT", id, NoRow, InboxRow(FALSE)))
  /\ UNCHANGED <<useNotifications, pending, returned, nonHookVars>>

\* A cascade of the database deletes a notification of the user.
serverDelete(id) ==
  /\ RowExists(userNotifications, id)
  /\ Len(realtime) < MaxEvents
  /\ userNotifications' = [userNotifications EXCEPT ![id] = DeletedRow]
  /\ realtime' =
       Append(realtime, Event("DELETE", id, userNotifications[id], DeletedRow))
  /\ UNCHANGED <<useNotifications, pending, returned, nonHookVars>>

\* ------------------------------- the client: useDialogForm, useDialogReset
\* A dialog whose form state is one value; the 150 ms delays are timers that
\* fire at any later moment, so that whatever the user does within the delay
\* is a step taken before the timer's.

MaxClosing == 2

defaultState == "default"

FormStates == {defaultState, "typed", "submitting"}

nonDialogVars ==
  <<dbVars, returned, userNotifications, realtime, useNotifications, pending>>

\* openDialog(), also handleOpenChange(true)
openDialog ==
  /\ ~ useDialogForm.open
  /\ useDialogForm' = [useDialogForm EXCEPT !.open = TRUE]
  /\ UNCHANGED <<useDialogReset, nonDialogVars>>

\* setState of the form while the user has the dialog.
setState(value) ==
  /\ useDialogForm.open
  /\ useDialogForm.state # value
  /\ useDialogForm' = [useDialogForm EXCEPT !.state = value]
  /\ UNCHANGED <<useDialogReset, nonDialogVars>>

\* closeDialog() up to its await, also handleOpenChange(false): the dialog
\* closes and a timer of 150 ms starts.
closeDialog ==
  /\ useDialogForm.open
  /\ useDialogForm.closing < MaxClosing
  /\ useDialogForm' = [useDialogForm EXCEPT !.open = FALSE, !.closing = @ + 1]
  /\ UNCHANGED <<useDialogReset, nonDialogVars>>

\* closeDialog() after its await: resetState() and then onClose(); the field
\* onClose tells whether the last onClose() came while the dialog was open.
closeDialogResumes ==
  /\ useDialogForm.closing > 0
  /\ useDialogForm' = [useDialogForm EXCEPT !.closing = @ - 1,
                                            !.state = defaultState,
                                            !.onClose = useDialogForm.open]
  /\ UNCHANGED <<useDialogReset, nonDialogVars>>

\* The parent of a dialog under useDialogReset changes its open prop: the
\* cleanup of the last effect clears the timer, and the effect starts one
\* when the dialog went from open to closed.
onOpenChange(open) ==
  /\ useDialogReset.open # open
  /\ useDialogReset' =
       [useDialogReset EXCEPT !.open = open,
                              !.timeoutRef = useDialogReset.previousOpenRef /\ ~ open,
                              !.previousOpenRef = open]
  /\ UNCHANGED <<useDialogForm, nonDialogVars>>

\* The state that onReset resets changes while the user has the dialog.
editUnderReset(value) ==
  /\ useDialogReset.open
  /\ useDialogReset.state # value
  /\ useDialogReset' = [useDialogReset EXCEPT !.state = value]
  /\ UNCHANGED <<useDialogForm, nonDialogVars>>

\* The timer of useDialogReset fires: onReset().
resetTimeout ==
  /\ useDialogReset.timeoutRef
  /\ useDialogReset' = [useDialogReset EXCEPT !.timeoutRef = FALSE,
                                              !.state = defaultState]
  /\ UNCHANGED <<useDialogForm, nonDialogVars>>

\* ------------------------------------------------------------ specification

\* The friendship row of the pair a < b, if any: who asked whom depends on
\* the pair, so that both directions occur.
FriendshipRow(a, b, status) ==
  IF (a + b) % 2 = 1
  THEN [requester_id |-> a, addressee_id |-> b, status |-> status]
  ELSE [requester_id |-> b, addressee_id |-> a, status |-> status]

\* The users who have friendship and allowlist rows in the environments that
\* Spec and SpecVis start from; the remaining user is a stranger to them all.
Circle == {u \in Users : u <= 3}

UserPairs == {pr \in Circle \X Circle : pr[1] < pr[2]}

\* Friendship tables with at most one row per pair of users.
FriendshipTables ==
  {{FriendshipRow(pr[1], pr[2], st[pr]) : pr \in {q \in UserPairs : st[q] # "none"}} :
     st \in [UserPairs -> {"none", "pending", "accepted"}]}

\* Every wishlist privacy, friendship table and allowlist.
InitEnv ==
  /\ wishlists \in [WishlistIds -> [user_id : {Owner}, privacy : Privacies]]
  /\ wishlist_items = [i \in Items |-> [wishlist_id |-> 1]]
  /\ friendships \in FriendshipTables
  /\ wishlist_selected_friends \in
       SUBSET {[wishlist_id |-> w, friend_id |-> u] :
                 w \in WishlistIds, u \in Circle \ {Owner}}

\* The environments the claim operations start from: of the above, those
\* whose friendship rows are all accepted, whose wishlist has no legacy
\* privacy value and whose allowlist is empty unless the wishlist is a
\* selected_friends one, which lists at most one friend.
InitScenario ==
  /\ InitEnv
  /\ \A f \in friendships : f.status = "accepted"
  /\ \A w \in WishlistIds : wishlists[w].privacy # "public"
  /\ \A sf \in wishlist_selected_friends :
       wishlists[sf.wishlist_id].privacy = "selected_friends"
  /\ Cardinality(wishlist_selected_friends) <= 1

\* The client before it is mounted: nothing fetched, no dialog open.
InitUi ==
  /\ userNotifications = [id \in NotifIds |-> NoRow]
  /\ realtime = <<>>
  /\ useNotifications = [notifications |-> <<>>, unreadCount |-> 0]
  /\ pending = {}
  /\ useDialogForm = [open |-> FALSE, state |-> defaultState, closing |-> 0,
                      onClose |-> FALSE]
  /\ useDialogReset = [open |-> FALSE, previousOpenRef |-> FALSE,
                       timeoutRef |-> FALSE, state |-> defaultState]

InitDbTables ==
  /\ item_claims = {}
  /\ split_claims = {}
  /\ split_claim_participants = {}
  /\ item_ownership_flags = {}
  /\ notifications = EmptyBag
  /\ next_id = [claim |-> 1, split |-> 1, flag |-> 1]
  /\ returned = NoResult
  /\ tx = [t \in TxIds |-> IdleTx]

InitTables == InitDbTables /\ InitUi

Init == InitScenario /\ InitTables

Next ==
  \/ \E i \in Items, u \in Users : createSoloClaim(i, u)
  \/ \E c \in 1 .. MaxClaims, u \in Users : cancelSoloClaim(c, u)
  \/ \E i \in Items, u \in Users, n \in 1 .. MaxTarget : initiateSplit(i, u, n)
  \/ \E s \in 1 .. MaxSplits, u \in Users : joinSplit(s, u)
  \/ \E s \in 1 .. MaxSplits, u \in Users : leaveSplit(s, u)
  \/ \E i \in Items, u \in Users : createFlag(i, u)
  \/ \E f \in 1 .. MaxFlags, u \in Users, d \in {"confirmed", "denied"} :
       resolveFlag(f, u, d)
  \/ \E f \in 1 .. MaxFlags, u \in Users : deleteFlag(f, u)
  \/ \E i \in Items, u \in Users : fulfillClaimsForItem(i, u)

Spec == Init /\ [][Next]_vars

\* Visibility under every environment: the oracle is asked, the environment
\* changes, and claims are created for it to hide.
InitVis == InitEnv /\ InitTables

NextVis ==
  \/ \E w \in WishlistIds, u \in Users : viewWishlist(w, u)
  \/ \E f \in friendships, u \in Users : removeFriendship(f, u)
  \/ \E w \in WishlistIds, u \in Users, pv \in Privacies :
       updateWishlistPrivacy(w, u, pv)
  \/ \E w \in WishlistIds, u \in Users, v \in Users : addSelectedFriend(w, u, v)
  \/ \E w \in WishlistIds, u \in Users, v \in Users : removeSelectedFriend(w, u, v)
  \/ \E i \in Items, u \in Users : createSoloClaim(i, u)
  \/ \E i \in Items, u \in Users, n \in 1 .. MaxTarget : initiateSplit(i, u, n)
  \/ \E s \in 1 .. MaxSplits, u \in Users : joinSplit(s, u)

SpecVis == InitVis /\ [][NextVis]_vars

\* A wishlist shared with friends whose owner has three friends, two of them
\* friends of each other: the environment of a split that more users may
\* want to join than it has places.
InitGroup ==
  /\ wishlists = [w \in WishlistIds |-> [user_id |-> Owner, privacy |-> "friends"]]
  /\ wishlist_items = [i \in Items |-> [wishlist_id |-> 1]]
  /\ friendships =
       {[requester_id |-> Owner, addressee_id |-> u, status |-> "accepted"] :
          u \in Users \ {Owner}}
       \cup {FriendshipRow(2, 3, "accepted")}
  /\ wishlist_selected_friends = {}
  /\ InitTables

NextGroup ==
  \/ \E i \in Items, u \in Users, n \in 1 .. MaxGroupTarget : initiateSplit(i, u, n)
  \/ \E s \in 1 .. MaxSplits, u \in Users : joinSplit(s, u)
  \/ \E s \in 1 .. MaxSplits, u \in Users : leaveSplit(s, u)
  \/ \E i \in Items, u \in Users : fulfillClaimsForItem(i, u)

SpecGroup == InitGroup /\ [][NextGroup]_vars

\* The fulfilment function called with every owner id, after claims were made.
NextRpc ==
  \/ \E i \in Items, u \in Users : createSoloClaim(i, u)
  \/ \E i \in Items, u \in Users, n \in 1 .. MaxTarget : initiateSplit(i, u, n)
  \/ \E s \in 1 .. MaxSplits, u \in Users : joinSplit(s, u)
  \/ \E i \in Items, o \in Users \cup {NULL} : call_fulfill_claims_for_item(i, o)

SpecRpc == Init /\ [][NextRpc]_vars

\* Two selected_friends wishlists of two owners who are friends of each other
\* and of a third user, every friend on every allowlist: friendships are
\* removed and made again, allowlist entries removed and added again.
FriendWishlistIds == {1, 2}

InitFriend ==
  /\ wishlists = [w \in FriendWishlistIds |->
                    [user_id |-> w, privacy |-> "selected_friends"]]
  /\ wishlist_items = [i \in Items |-> [wishlist_id |-> 1]]
  /\ friendships = {FriendshipRow(pr[1], pr[2], "accepted") : pr \in UserPairs}
  /\ wishlist_selected_friends =
       {[wishlist_id |-> w, friend_id |-> u] :
          w \in FriendWishlistIds, u \in Circle} \
       {[wishlist_id |-> w, friend_id |-> w] : w \in FriendWishlistIds}
  /\ InitTables

NextFriend ==
  \/ \E w \in FriendWishlistIds, u \in Circle : viewWishlist(w, u)
  \/ \E f \in friendships, u \in Circle : removeFriendship(f, u)
  \/ \E u \in Circle, v \in Circle : sendFriendRequest(u, v)
  \/ \E f \in friendships, u \in Circle : acceptFriendRequest(f, u)
  \/ \E w \in FriendWishlistIds, u \in Circle, v \in Circle :
       addSelectedFriend(w, u, v)
  \/ \E w \in FriendWishlistIds, u \in Circle, v \in Circle :
       removeSelectedFriend(w, u, v)

SpecFriend == InitFriend /\ [][NextFriend]_vars

\* Wishlists created and items added under every environment, for the
\* notifications that tell the owner's friends.
FeedWishlistIds == {1, 2}

FeedItems == {1, 2}

NextFeed ==
  \/ \E w \in FeedWishlistIds, u \in Circle, pv \in Privacies :
       createWishlist(w, u, pv)
  \/ \E i \in FeedItems, w \in FeedWishlistIds, u \in Circle : addItem(i, w, u)
  \/ \E w \in FeedWishlistIds, u \in Circle, v \in Circle :
       addSelectedFriend(w, u, v)

SpecFeed == InitVis /\ [][NextFeed]_vars

\* A database that no operation changes, under the client.
InitIdleDb ==
  /\ wishlists = [w \in WishlistIds |-> [user_id |-> Owner, privacy |-> "private"]]
  /\ wishlist_items = [i \in Items |-> [wishlist_id |-> 1]]
  /\ friendships = {}
  /\ wishlist_selected_friends = {}
  /\ InitDbTables

\* The hook is mounted over any rows of the user: its initial effect has
\* called fetchNotifications and the channel is subscribed. Then the user
\* acts, the server answers, the database adds and deletes rows, and the
\* channel delivers.
InitHook ==
  /\ InitIdleDb
  /\ userNotifications \in
       [NotifIds -> {NoRow, InboxRow(FALSE), InboxRow(TRUE)}]
  /\ \A id \in NotifIds, older \in NotifIds :
       older < id /\ userNotifications[older] = NoRow
         => userNotifications[id] = NoRow
  /\ realtime = <<>>
  /\ useNotifications = [notifications |-> <<>>, unreadCount |-> 0]
  /\ pending = {Call("fetchNotifications", 0, "await fetch", NoBefore)}
  /\ useDialogForm = [open |-> FALSE, state |-> defaultState, closing |-> 0,
                      onClose |-> FALSE]
  /\ useDialogReset = [open |-> FALSE, previousOpenRef |-> FALSE,
                       timeoutRef |-> FALSE, state |-> defaultState]

NextHook ==
  \/ \E id \in NotifIds : markAsRead(id)
  \/ markAllAsRead
  \/ \E id \in NotifIds : archiveNotification(id)
  \/ archiveAllRead
  \/ \E p \in pending : actionSucceeds(p)
  \/ \E p \in pending : actionFails(p)
  \/ \E p \in pending : revertDone(p)
  \/ \E p \in pending : fetchDone(p)
  \/ \E p \in pending : selectDone(p)
  \/ deliver
  \/ \E id \in NotifIds : serverInsert(id)
  \/ \E id \in NotifIds : serverDelete(id)

SpecHook == InitHook /\ [][NextHook]_vars

\* The hook over rows that only its own server actions change: each action
\* succeeds or fails, and a failure is followed by the refetch.
NextRevert ==
  \/ \E id \in NotifIds : markAsRead(id)
  \/ markAllAsRead
  \/ \E id \in NotifIds : archiveNotification(id)
  \/ archiveAllRead
  \/ \E p \in pending : actionSucceeds(p)
  \/ \E p \in pending : actionFails(p)
  \/ \E p \in pending : revertDone(p)
  \/ \E p \in pending : fetchDone(p)
  \/ deliver

SpecRevert == InitHook /\ [][NextRevert]_vars

\* Two dialogs, one under each hook, opened, edited and closed.
InitDialog == InitIdleDb /\ InitUi

NextDialog ==
  \/ openDialog
  \/ \E v \in FormStates : setState(v)
  \/ closeDialog
  \/ closeDialogResumes
  \/ \E o \in BOOLEAN : onOpenChange(o)
  \/ \E v \in FormStates : editUnderReset(v)
  \/ resetTimeout

SpecDialog == InitDialog /\ [][NextDialog]_vars

\* Join transactions that interleave, on splits of the owner's three friends.
NextJoin ==
  \/ \E i \in Items, u \in Users, n \in 1 .. MaxGroupTarget : initiateSplit(i, u, n)
  \/ \E t \in TxIds, s \in 1 .. MaxSplits, u \in Users : txJoinInsert(t, s, u)
  \/ \E t \in TxIds : txJoinCommit(t)

SpecJoin == InitGroup /\ [][NextJoin]_vars

\* Create transactions that interleave.
NextTx ==
  \/ \E t \in TxIds, kind \in {"solo", "split"}, i \in Items, u \in Users,
        n \in 1 .. MaxTarget : txCheck(t, kind, i, u, n)
  \/ \E t \in TxIds : txInsert(t)

SpecTx == Init /\ [][NextTx]_vars

\* ============================================================== properties

ActiveSoloClaims(item_id) ==
  {c \in item_claims : c.item_id = item_id /\ c.status = "active"}

ActiveSplitClaims(item_id) ==
  {s \in split_claims : s.item_id = item_id /\ s.claim_status = "active"}

ParticipantCount(split_claim_id) ==
  Cardinality({p \in split_claim_participants : p.split_claim_id = split_claim_id})

\* A user other than the owner who can view the item's wishlist.
Eligible(item_id, uid) ==
  OwnerOf(item_id) # uid /\ can_view_wishlist(WishlistOf(item_id), uid)

\* C1: in every state reached by the claim operations, each item has at most
\* one active claim in total: at most one active solo claim, at most one
\* active split claim, and never one of each.
C1_AtMostOneActiveClaim ==
  \A i \in Items :
    Cardinality(ActiveSoloClaims(i)) + Cardinality(ActiveSplitClaims(i)) <= 1

\* C1 witness: an item with an active split claim that was created after an
\* earlier split claim on it had been fulfilled.
C1_Witness ==
  \E i \in Items, s \in split_claims, t \in split_claims :
    /\ s.item_id = i /\ t.item_id = i
    /\ s.claim_status = "active" /\ t.claim_status = "fulfilled"
    /\ t.id < s.id

\* C2 (as claimed): once every create transaction on the item has ended, and
\* some transaction passed its existence check, exactly one has committed and
\* the others have ended in Conflict; and no state has two active claims.
C2_ExactlyOneSurvivor ==
  /\ C1_AtMostOneActiveClaim
  /\ LET ran == {t \in TxIds : tx[t].pc \in {"checked", "committed", "conflict"}}
         done == {t \in TxIds : tx[t].pc \in {"committed", "conflict"}}
     IN (ran # {} /\ ran = done) =>
          Cardinality({t \in ran : tx[t].pc = "committed"}) = 1

\* C3: a pending split has fewer participants than its target and no
\* confirmation time; a confirmed one has its confirmation time; and a split
\* goes from pending to confirmed only in a step that inserts one participant
\* and brings the count from target - 1 to target.
C3_AutoConfirmOnQuota ==
  /\ [](\A s \in split_claims :
          /\ s.status = "pending" =>
               (ParticipantCount(s.id) < s.target_participants /\ ~s.confirmed_at)
          /\ s.status = "confirmed" => s.confirmed_at)
  /\ [][\A s \in split_claims, t \in split_claims' :
          (s.id = t.id /\ s.status = "pending" /\ t.status = "confirmed") =>
            /\ t.confirmed_at
            /\ ParticipantCount(s.id) = s.target_participants - 1
            /\ ParticipantCount(s.id)' = s.target_participants
            /\ \E u \in Users :
                 split_claim_participants' =
                   split_claim_participants \cup {NewParticipant(s.id, u)}]_vars

\* C3 witness: a confirmed split whose participants are its initiator and a
\* joiner, as many as its target.
C3_Witness ==
  \E s \in split_claims :
    /\ s.status = "confirmed" /\ s.confirmed_at
    /\ ParticipantCount(s.id) = s.target_participants
    /\ \E p \in split_claim_participants :
         p.split_claim_id = s.id /\ p.user_id # s.initiated_by

\* C4: the owner of an item's wishlist can read no solo claim, split claim or
\* split participant of that item.
C4_OwnerReadsNoClaim ==
  /\ \A c \in item_claims : ~item_claims_select_policy(OwnerOf(c.item_id), c)
  /\ \A s \in split_claims : ~split_claims_select_policy(OwnerOf(s.item_id), s)
  /\ \A p \in split_claim_participants : \A s \in split_claims :
       s.id = p.split_claim_id =>
         ~split_claim_participants_select_policy(Db, OwnerOf(s.item_id), p)

\* C4 witness: a split claim with two participants on a wishlist that has
\* meanwhile become private, its owner a friend of a participant.
C4_Witness ==
  \E s \in split_claims :
    /\ ParticipantCount(s.id) = 2
    /\ wishlists[WishlistOf(s.item_id)].privacy = "private"
    /\ are_friends(OwnerOf(s.item_id), s.initiated_by)

\* C5: for a private wishlist the answer to every viewer other than the
\* owner is no, whatever the friendships and the allowlist.
C5_PrivateHidesFromAll ==
  /\ \A w \in WishlistIds, u \in Users :
       (wishlists[w].privacy = "private" /\ u # wishlists[w].user_id)
         => ~can_view_wishlist(w, u)
  /\ (/\ returned.op = "canView"
      /\ wishlists[returned.wishlist_id].privacy = "private"
      /\ returned.viewer_id # wishlists[returned.wishlist_id].user_id)
       => returned.value = FALSE

\* C5 witness: the oracle was asked about a private wishlist for a viewer who
\* is an accepted friend of the owner and on the allowlist.
C5_Witness ==
  /\ returned.op = "canView"
  /\ wishlists[returned.wishlist_id].privacy = "private"
  /\ returned.viewer_id # wishlists[returned.wishlist_id].user_id
  /\ are_friends(wishlists[returned.wishlist_id].user_id, returned.viewer_id)
  /\ [wishlist_id |-> returned.wishlist_id, friend_id |-> returned.viewer_id]
       \in wishlist_selected_friends

\* The reference of C6, written from the claim.
AcceptedBetween(a, b) ==
  \E f \in friendships :
    /\ f.status = "accepted"
    /\ {f.requester_id, f.addressee_id} = {a, b}

CanViewReference(w, viewer) ==
  LET owner == wishlists[w].user_id
      privacy == wishlists[w].privacy
      listed == [wishlist_id |-> w, friend_id |-> viewer] \in wishlist_selected_friends
  IN \/ viewer = owner
     \/ /\ viewer # owner
        /\ \/ privacy = "selected_friends" /\ AcceptedBetween(viewer, owner) /\ listed
           \/ privacy \notin {"selected_friends", "private"}
                /\ AcceptedBetween(viewer, owner)

\* C6: canView equals the reference for every wishlist, viewer, friendship
\* table and allowlist.
C6_CanViewMatchesReference ==
  /\ \A w \in WishlistIds, u \in Users :
       can_view_wishlist(w, u) = CanViewReference(w, u)
  /\ returned.op = "canView" =>
       returned.value = CanViewReference(returned.wishlist_id, returned.viewer_id)

\* C6 witness: the oracle answered yes for a wishlist with the legacy privacy
\* value, to a viewer whose friendship with the owner the viewer had requested.
C6_Witness ==
  /\ returned.op = "canView"
  /\ returned.value = TRUE
  /\ wishlists[returned.wishlist_id].privacy = "public"
  /\ \E f \in friendships :
       /\ f.status = "accepted"
       /\ f.requester_id = returned.viewer_id
       /\ f.addressee_id = wishlists[returned.wishlist_id].user_id

\* C7: while an item has a cancelled solo claim and no active one, the
\* database accepts a new solo claim on it from every eligible user; and no
\* step that adds a solo claim removes or changes a cancelled row.
C7_ReclaimAfterCancel ==
  /\ [](\A i \in Items, u \in Users :
          (/\ \E c \in item_claims : c.item_id = i /\ c.status = "cancelled"
           /\ ActiveSoloClaims(i) = {}
           /\ Eligible(i, u))
            => CanCreateSoloClaim(Db, i, u))
  /\ [][\A c \in item_claims :
          (c.status = "cancelled" /\ item_claims' \ item_claims # {}
             /\ \A n \in item_claims' \ item_claims : n.id \notin {o.id : o \in item_claims})
            => c \in item_claims']_vars

\* C7 witness: an item with a cancelled solo claim and a later, active one.
C7_Witness ==
  \E c \in item_claims, n \in item_claims :
    /\ c.item_id = n.item_id
    /\ c.status = "cancelled" /\ n.status = "active"
    /\ c.id < n.id

\* C8 (as claimed): only an active record of the other type blocks a create:
\* the database accepts initiateSplit on an item whose solo claims are all
\* cancelled or fulfilled, and createSoloClaim on an item whose split claims
\* are all fulfilled.
C8_OnlyActiveOtherTypeBlocks ==
  \A i \in Items, u \in Users :
    /\ (/\ Eligible(i, u)
        /\ ActiveSoloClaims(i) = {}
        /\ ActiveSplitClaims(i) = {})
         => \A n \in 2 .. MaxTarget : CanInitiateSplit(Db, i, u, n)
    /\ (/\ Eligible(i, u)
        /\ ActiveSoloClaims(i) = {}
        /\ \A s \in split_claims : s.item_id = i => s.claim_status = "fulfilled")
         => CanCreateSoloClaim(Db, i, u)

\* C9: when the initiator leaves, the split claim and all its participant
\* rows are gone and nothing else of the two tables changes; when another
\* participant leaves, only that participant's row is gone.
C9_LeaveSplitFrame ==
  [][\A sid \in 1 .. MaxSplits, u \in Users :
       leaveSplit(sid, u) =>
         LET s == CHOOSE x \in split_claims : x.id = sid IN
         IF s.initiated_by = u
         THEN /\ split_claims' = split_claims \ {s}
              /\ split_claim_participants' =
                   {p \in split_claim_participants : p.split_claim_id # sid}
         ELSE /\ split_claims' = split_claims
              /\ split_claim_participants' =
                   split_claim_participants \ {NewParticipant(sid, u)}
              /\ NewParticipant(sid, s.initiated_by) \in split_claim_participants']_vars

\* C9 witness: a pending split that a participant other than its initiator
\* has left: the initiator holds the split_left notification about it.
C9_Witness ==
  \E s \in split_claims, n \in BagToSet(notifications) :
    /\ n.type = "split_left" /\ n.split_claim_id = s.id
    /\ n.user_id = s.initiated_by
    /\ s.status = "pending"
    /\ NewParticipant(s.id, n.actor_id) \notin split_claim_participants
    /\ NewParticipant(s.id, s.initiated_by) \in split_claim_participants

\* C10: the step that takes a flag from pending to confirmed leaves the
\* flag's item with no active solo claim and no active split claim, and no
\* claim that was active before it is still there as an active claim.
C10_ConfirmCancelsClaims ==
  [][\A f \in item_ownership_flags, g \in item_ownership_flags' :
       (f.id = g.id /\ f.status = "pending" /\ g.status = "confirmed") =>
         /\ \A c \in item_claims' : ~(c.item_id = f.item_id /\ c.status = "active")
         /\ \A s \in split_claims' :
              ~(s.item_id = f.item_id /\ s.claim_status = "active")
         /\ \A c \in ActiveSoloClaims(f.item_id) :
              ~\E d \in item_claims' : d.id = c.id /\ d.status = "active"
         /\ \A s \in ActiveSplitClaims(f.item_id) :
              ~\E d \in split_claims' : d.id = s.id /\ d.claim_status = "active"]_vars

\* C10 witness: a confirmed flag on an item that has had a split claim with
\* several participants, cancelled without its initiator leaving, and has no
\* claim now.
C10_Witness ==
  \E f \in item_ownership_flags :
    /\ f.status = "confirmed"
    /\ ActiveSoloClaims(f.item_id) = {} /\ ActiveSplitClaims(f.item_id) = {}
    /\ \E n \in BagToSet(notifications) :
         n.type = "split_cancelled" /\ n.item_id = f.item_id
    /\ \E n \in BagToSet(notifications) : n.type = "flag_confirmed"

\* The gift_received rows of a bag of notifications.
GiftReceived(bag) ==
  [n \in {x \in DOMAIN bag : x.type = "gift_received"} |-> bag[n]]

\* C11: the step that resolves a pending flag as denied leaves every solo
\* claim, split claim and participant row as it was, and adds exactly one
\* notification: flag_denied, to the flagger.
C11_DeniedLeavesClaims ==
  [][\A fid \in 1 .. MaxFlags, u \in Users :
       resolveFlag(fid, u, "denied") =>
         LET f == CHOOSE x \in item_ownership_flags : x.id = fid IN
         /\ item_claims' = item_claims
         /\ split_claims' = split_claims
         /\ split_claim_participants' = split_claim_participants
         /\ notifications' =
              notifications (+)
                SetToBag({Notification(f.flagged_by, "flag_denied",
                                       OwnerOf(f.item_id), NULL, f.item_id,
                                       WishlistOf(f.item_id), f.id)})]_vars

\* C11 witness: a denied flag on an item that still has its pending split
\* claim with two participants.
C11_Witness ==
  \E f \in item_ownership_flags, s \in split_claims :
    /\ f.status = "denied" /\ s.item_id = f.item_id
    /\ s.claim_status = "active" /\ ParticipantCount(s.id) = 2
    /\ \E n \in BagToSet(notifications) :
         n.type = "flag_denied" /\ n.user_id = f.flagged_by

\* C12: a fulfillClaimsForItem step on an item with an active solo claim adds
\* one gift_received notification, to the claimer; on an item with an active
\* split claim it adds one to each participant of the split and to nobody
\* else; it adds no other notification, and the claimer ids it returns are
\* the users it notified.
C12_FulfilNotifiesClaimers ==
  [][\A i \in Items, u \in Users :
       (fulfillClaimsForItem(i, u)
          /\ ActiveSoloClaims(i) \cup ActiveSplitClaims(i) # {}) =>
         LET claimers ==
               IF ActiveSoloClaims(i) # {}
               THEN {c.claimed_by : c \in ActiveSoloClaims(i)}
               ELSE {p.user_id : p \in {q \in split_claim_participants :
                        \E s \in ActiveSplitClaims(i) : q.split_claim_id = s.id}}
             added == notifications' (-) notifications
         IN /\ notifications \sqsubseteq notifications'
            /\ added = SetToBag({Notification(v, "gift_received", u, NULL, i,
                                              WishlistOf(i), NULL) : v \in claimers})
            /\ OwnerOf(i) \notin claimers
            /\ \E r \in returned'.result : returned'.result = {r}
                                             /\ r.claimer_ids = claimers]_vars

\* C12 witness: a fulfilment that returned the two participants of a split,
\* each of whom holds one gift_received notification.
C12_Witness ==
  /\ returned.op = "fulfillClaimsForItem"
  /\ \E r \in returned.result :
       /\ r.claim_type = "split" /\ Cardinality(r.claimer_ids) = 2
       /\ \A v \in r.claimer_ids :
            \E n \in BagToSet(notifications) :
              n.type = "gift_received" /\ n.user_id = v /\ notifications[n] = 1

\* C13: a fulfillClaimsForItem step on an item with no active claim returns
\* the empty result and changes no claim row and no notification; and right
\* after a fulfilment that returned a claim, that claim is fulfilled and its
\* item has no active claim left.
C13_FulfilWithoutClaimIsNoOp ==
  /\ [][\A i \in Items, u \in Users :
          (fulfillClaimsForItem(i, u)
             /\ ActiveSoloClaims(i) \cup ActiveSplitClaims(i) = {}) =>
            /\ returned'.result = {}
            /\ UNCHANGED <<item_claims, split_claims, split_claim_participants,
                           notifications>>]_vars
  /\ [](returned.op = "fulfillClaimsForItem" =>
          \A r \in returned.result :
            /\ r.claim_type = "solo" =>
                 \E c \in item_claims :
                   /\ c.id = r.claim_id /\ c.status = "fulfilled"
                   /\ ActiveSoloClaims(c.item_id) \cup ActiveSplitClaims(c.item_id) = {}
            /\ r.claim_type = "split" =>
                 \E c \in split_claims :
                   /\ c.id = r.claim_id /\ c.claim_status = "fulfilled"
                   /\ ActiveSoloClaims(c.item_id) \cup ActiveSplitClaims(c.item_id) = {})

\* C13 witness: a fulfilment returned the empty result on an item whose solo
\* claim an earlier fulfilment had fulfilled, the claimer holding the one
\* gift_received notification there is.
C13_Witness ==
  /\ returned.op = "fulfillClaimsForItem"
  /\ returned.result = {}
  /\ \E c \in item_claims : c.status = "fulfilled"
  /\ BagCardinality(GiftReceived(notifications)) = 1

\* C14 (as claimed): a split claim is marked fulfilled only in a step before
\* which its status is confirmed; a pending split is never fulfilled.
C14_FulfilledOnlyFromConfirmed ==
  [][\A s \in split_claims, t \in split_claims' :
       (s.id = t.id /\ s.claim_status # "fulfilled" /\ t.claim_status = "fulfilled")
         => s.status = "confirmed"]_vars

\* C15: the database accepts no joinSplit into a split that is not pending,
\* nor from a user who is already a participant of it; and every joinSplit
\* step starts from a pending split without the user and adds the user's row
\* and no other.
C15_JoinRejected ==
  /\ [](\A s \in split_claims, u \in Users :
          (s.status # "pending" \/ NewParticipant(s.id, u) \in split_claim_participants)
            => ~CanJoinSplit(Db, s.id, u))
  /\ [][\A sid \in 1 .. MaxSplits, u \in Users :
          joinSplit(sid, u) =>
            /\ \E s \in split_claims : s.id = sid /\ s.status = "pending"
            /\ NewParticipant(sid, u) \notin split_claim_participants
            /\ split_claim_participants' =
                 split_claim_participants \cup {NewParticipant(sid, u)}]_vars

\* C15 witness: a confirmed split with its two participants and a third
\* friend of the owner, who can view the wishlist and is not in the split.
C15_Witness ==
  \E s \in split_claims, u \in Users :
    /\ s.status = "confirmed" /\ ParticipantCount(s.id) = 2
    /\ Eligible(s.item_id, u)
    /\ NewParticipant(s.id, u) \notin split_claim_participants

\* C16 (as claimed): no joinSplit or leaveSplit step (the initiator's
\* cancellation included) changes a split claim that is confirmed or
\* fulfilled: the row and its participants stay as they are.
C16_SettledSplitImmutable ==
  [][\A s \in split_claims :
       (/\ s.status = "confirmed" \/ s.claim_status = "fulfilled"
        /\ \E sid \in 1 .. MaxSplits, u \in Users :
             joinSplit(sid, u) \/ leaveSplit(sid, u))
         => /\ s \in split_claims'
            /\ {p \in split_claim_participants' : p.split_claim_id = s.id}
                 = {p \in split_claim_participants : p.split_claim_id = s.id}]_vars

FlagsOf(item_id) == {f \in item_ownership_flags : f.item_id = item_id}

C19_FlagAuthorization ==
  /\ [](\A f \in item_ownership_flags, u \in Users :
          /\ u # OwnerOf(f.item_id) => ~item_ownership_flags_update_policy(u, f)
          /\ (u # f.flagged_by \/ f.status # "pending")
               => ~item_ownership_flags_delete_policy(u, f))
  /\ [][\A fid \in 1 .. MaxFlags, u \in Users :
          LET f == CHOOSE x \in item_ownership_flags : x.id = fid IN
          /\ (\E d \in {"confirmed", "denied"} : resolveFlag(fid, u, d))
               => u = OwnerOf(f.item_id)
          /\ deleteFlag(fid, u) => (u = f.flagged_by /\ f.status = "pending")
          /\ (item_ownership_flags' # item_ownership_flags
                /\ \E x \in item_ownership_flags : x.id = fid)
               => \/ \E v \in Users, d \in {"confirmed", "denied"} :
                       resolveFlag(fid, v, d)
                  \/ \E v \in Users : deleteFlag(fid, v)]_vars

\* C19 witness: a resolved flag, still there, with its flagger and a third
\* user who can view the wishlist.
C19_Witness ==
  \E f \in item_ownership_flags, u \in Users :
    /\ f.status = "confirmed"
    /\ u \notin {f.flagged_by, OwnerOf(f.item_id)}
    /\ can_view_wishlist(WishlistOf(f.item_id), u)

\* C20: no solo claim, split claim, participant row or flag belongs to the
\* owner of the item's wishlist, and the database accepts no createSoloClaim,
\* initiateSplit, joinSplit or createFlag from that owner.
C20_OwnerExcluded ==
  /\ \A c \in item_claims : c.claimed_by # OwnerOf(c.item_id)
  /\ \A s \in split_claims : s.initiated_by # OwnerOf(s.item_id)
  /\ \A p \in split_claim_participants : \A s \in split_claims :
       s.id = p.split_claim_id => p.user_id # OwnerOf(s.item_id)
  /\ \A f \in item_ownership_flags : f.flagged_by # OwnerOf(f.item_id)
  /\ \A i \in Items :
       /\ ~CanCreateSoloClaim(Db, i, OwnerOf(i))
       /\ \A n \in 2 .. MaxTarget : ~CanInitiateSplit(Db, i, OwnerOf(i), n)
       /\ ~CanCreateFlag(Db, i, OwnerOf(i))
  /\ \A s \in split_claims : ~CanJoinSplit(Db, s.id, OwnerOf(s.item_id))

\* C20 witness: a pending split with a place left and a pending flag on an
\* item of a wishlist that its owner, as always, can view.
C20_Witness ==
  \E s \in split_claims, f \in item_ownership_flags :
    /\ s.item_id = f.item_id
    /\ s.status = "pending" /\ s.claim_status = "active"
    /\ ParticipantCount(s.id) < s.target_participants
    /\ f.status = "pending"
    /\ can_view_wishlist(WishlistOf(s.item_id), OwnerOf(s.item_id))

\* C21: createSoloClaim, initiateSplit, joinSplit and createFlag take a step
\* only for a caller who can view the wishlist of the item at that moment;
\* a step leaves no new claim, split, participant or flag row of a user who
\* cannot view the wishlist, and no new notification with that user as actor.
C21_CreateNeedsCanView ==
  [][/\ \A i \in Items, u \in Users :
          (\/ createSoloClaim(i, u)
           \/ createFlag(i, u)
           \/ \E n \in 1 .. MaxTarget : initiateSplit(i, u, n))
          => can_view_wishlist(WishlistOf(i), u)
     /\ \A s \in split_claims, u \in Users :
          joinSplit(s.id, u) => can_view_wishlist(WishlistOf(s.item_id), u)
     /\ \A i \in Items, u \in Users :
          ~can_view_wishlist(WishlistOf(i), u) =>
            /\ \A c \in item_claims' \ item_claims :
                 ~(c.item_id = i /\ c.claimed_by = u)
            /\ \A s \in split_claims' \ split_claims :
                 ~(s.item_id = i /\ s.initiated_by = u)
            /\ \A p \in split_claim_participants' \ split_claim_participants :
                 ~(p.user_id = u /\ \E s \in split_claims' :
                                      s.id = p.split_claim_id /\ s.item_id = i)
            /\ \A f \in item_ownership_flags' \ item_ownership_flags :
                 ~(f.item_id = i /\ f.flagged_by = u)
            /\ \A n \in DOMAIN notifications' :
                 (n.item_id = i /\ n.actor_id = u) =>
                   /\ n \in DOMAIN notifications
                   /\ notifications'[n] <= notifications[n]]_vars

\* C21 witness: a split with two participants and a flag, all of viewers,
\* next to a user other than the owner who cannot view the wishlist and has
\* no row and no notification as actor.
C21_Witness ==
  \E s \in split_claims, f \in item_ownership_flags, v \in Users :
    /\ ParticipantCount(s.id) >= 2
    /\ f.item_id = s.item_id
    /\ v # OwnerOf(s.item_id)
    /\ ~can_view_wishlist(WishlistOf(s.item_id), v)
    /\ \A u \in {s.initiated_by, f.flagged_by} :
         can_view_wishlist(WishlistOf(s.item_id), u)
    /\ \A n \in DOMAIN notifications : n.actor_id # v

\* Every create, join and flag request of viewer v on wishlist w is rejected.
RequestsRejected(w, v) ==
  /\ \A i \in Items : WishlistOf(i) = w =>
       /\ ~CanCreateSoloClaim(Db, i, v)
       /\ \A n \in 1 .. MaxTarget : ~CanInitiateSplit(Db, i, v, n)
       /\ ~CanCreateFlag(Db, i, v)
  /\ \A s \in split_claims : WishlistOf(s.item_id) = w => ~CanJoinSplit(Db, s.id, v)

\* C22: in the state that the removal of an accepted friendship leaves, each
\* of the two users can no longer view the other's friends and
\* selected_friends wishlists and the database rejects their create-claim,
\* join and flag requests there; and in every state this holds for every
\* user who has no accepted friendship with the owner.
C22_UnfriendRevokesAtOnce ==
  /\ [][\A f \in friendships, u \in Users :
          (removeFriendship(f, u) /\ f.status = "accepted") =>
            \A w \in WishlistIds, v \in {f.requester_id, f.addressee_id} :
              (/\ wishlists[w].user_id \in {f.requester_id, f.addressee_id} \ {v}
               /\ wishlists[w].privacy \in {"friends", "selected_friends"}) =>
                /\ ~can_view_wishlist(w, v)'
                /\ RequestsRejected(w, v)']_vars
  /\ [](\A w \in WishlistIds, v \in Users :
          (/\ v # wishlists[w].user_id
           /\ wishlists[w].privacy \in {"friends", "selected_friends"}
           /\ ~AcceptedBetween(wishlists[w].user_id, v)) =>
            (~can_view_wishlist(w, v) /\ RequestsRejected(w, v)))

\* C22 witness: a user who has an active claim or a split on an item of a
\* friends or selected_friends wishlist, made while a friend of the owner,
\* and whose friendship with the owner has been removed since.
C22_Witness ==
  \E i \in Items, v \in Users :
    /\ v # OwnerOf(i)
    /\ wishlists[WishlistOf(i)].privacy \in {"friends", "selected_friends"}
    /\ \/ \E c \in item_claims :
            c.item_id = i /\ c.claimed_by = v /\ c.status = "active"
       \/ \E s \in split_claims : s.item_id = i /\ s.initiated_by = v
    /\ ~\E f \in friendships :
          {f.requester_id, f.addressee_id} = {OwnerOf(i), v}
    /\ ~can_view_wishlist(WishlistOf(i), v)

\* C23: a call of fulfill_claims_for_item whose p_owner_id is not the owner of
\* the item's wishlist, or is NULL, changes no claim and creates no
\* notification.
C23_OnlyOwnerFulfils ==
  [][\A i \in Items, o \in Users \cup {NULL} :
       (call_fulfill_claims_for_item(i, o) /\ o # OwnerOf(i)) =>
         UNCHANGED <<item_claims, split_claims, notifications>>]_vars

\* The notification types of claim events.
ClaimEventTypes ==
  {"split_initiated", "split_joined", "split_left", "split_confirmed",
   "split_cancelled", "gift_received"}

\* The notifications a step adds: the rows that are new or more numerous.
Added(type) ==
  {n \in DOMAIN notifications' :
     /\ n.type = type
     /\ (n \notin DOMAIN notifications \/ notifications'[n] > notifications[n])}

Delta(n) ==
  notifications'[n] - (IF n \in DOMAIN notifications THEN notifications[n] ELSE 0)

\* The notifications of a type that a step adds for user v.
AddedTo(type, v) == {n \in Added(type) : n.user_id = v}

\* The step adds exactly one notification of the type for each user of
\* recipients and none for any other user.
AddsOneEach(type, recipients) ==
  \A v \in Users :
    IF v \in recipients
    THEN \E n \in AddedTo(type, v) : AddedTo(type, v) = {n} /\ Delta(n) = 1
    ELSE AddedTo(type, v) = {}

ParticipantIds(rows, split_claim_id) ==
  {p.user_id : p \in {q \in rows : q.split_claim_id = split_claim_id}}

\* C26: a step of joinSplit adds exactly one split_joined notification for
\* each participant that the split has after the insert, the joiner excepted,
\* and for nobody else; a step of leaveSplit by a user other than the
\* initiator adds exactly one split_left notification for each participant
\* that the split had before the removal, the leaver excepted, and for nobody
\* else; a step of initiateSplit, which inserts the initiator, adds no
\* split_joined notification.
C26_JoinLeaveNotifyOthers ==
  [][/\ \A s \in split_claims, u \in Users :
          /\ joinSplit(s.id, u) =>
               AddsOneEach("split_joined",
                 ParticipantIds(split_claim_participants', s.id) \ {u})
          /\ (leaveSplit(s.id, u) /\ u # s.initiated_by) =>
               AddsOneEach("split_left",
                 ParticipantIds(split_claim_participants, s.id) \ {u})
     /\ \A i \in Items, u \in Users, k \in 1 .. MaxGroupTarget :
          initiateSplit(i, u, k) => Added("split_joined") = {}]_vars

\* C26 witness: a join that two earlier participants were told of, and a
\* leave that the two participants who stayed were told of.
C26_Witness ==
  \E j1, j2, l1, l2 \in DOMAIN notifications :
    /\ j1.type = "split_joined" /\ j2.type = "split_joined"
    /\ j1.actor_id = j2.actor_id /\ j1.user_id # j2.user_id
    /\ l1.type = "split_left" /\ l2.type = "split_left"
    /\ l1.actor_id = l2.actor_id /\ l1.user_id # l2.user_id
    /\ \A n \in {j1, j2, l1, l2} : n.user_id # n.actor_id

\* The splits that a step takes from pending to confirmed.
Confirming ==
  {s \in split_claims :
     \E t \in split_claims' :
       t.id = s.id /\ s.status = "pending" /\ t.status = "confirmed"}

\* C27: a step that takes a split from pending to confirmed adds exactly one
\* split_confirmed notification, of that split, for each participant the
\* split then has, the user whose join filled it included, and for nobody
\* else; a step that confirms no split adds no split_confirmed notification,
\* whatever else it updates in the split row.
C27_ConfirmedToAllParticipants ==
  [][/\ \A s \in Confirming :
          /\ AddsOneEach("split_confirmed",
                         ParticipantIds(split_claim_participants', s.id))
          /\ \A n \in Added("split_confirmed") : n.split_claim_id = s.id
          /\ \A u \in Users :
               joinSplit(s.id, u) => AddedTo("split_confirmed", u) # {}
     /\ Confirming = {} => Added("split_confirmed") = {}]_vars

\* C27 witness: a split that was confirmed and then fulfilled, whose
\* initiator and other participant each hold one split_confirmed notification.
C27_Witness ==
  \E s \in split_claims, p \in split_claim_participants :
    /\ s.status = "confirmed" /\ s.claim_status = "fulfilled"
    /\ p.split_claim_id = s.id /\ p.user_id # s.initiated_by
    /\ \A u \in {s.initiated_by, p.user_id} :
         \E n \in DOMAIN notifications :
           /\ n.type = "split_confirmed" /\ n.split_claim_id = s.id
           /\ n.user_id = u /\ notifications[n] = 1

\* C28: a step that deletes a pending split leaves, next to no row of the
\* split and none of its participants, exactly one new split_cancelled
\* notification for each participant the split had, the initiator excepted,
\* and for nobody else; and no later step removes a split_cancelled
\* notification.
C28_CancelledOutlivesSplit ==
  [][/\ \A s \in split_claims :
          (s.status = "pending" /\ ~\E t \in split_claims' : t.id = s.id) =>
            /\ ParticipantIds(split_claim_participants', s.id) = {}
            /\ AddsOneEach("split_cancelled",
                 ParticipantIds(split_claim_participants, s.id) \ {s.initiated_by})
            /\ \A n \in Added("split_cancelled") :
                 n.actor_id = s.initiated_by /\ n.item_id = s.item_id
     /\ \A n \in DOMAIN notifications :
          n.type = "split_cancelled" =>
            (n \in DOMAIN notifications' /\ notifications'[n] >= notifications[n])]_vars

\* C28 witness: two participants hold the split_cancelled notification of a
\* split that has since gone, with all its participant rows.
C28_Witness ==
  \E n, m \in DOMAIN notifications :
    /\ n.type = "split_cancelled" /\ m.type = "split_cancelled"
    /\ n.user_id # m.user_id /\ n.actor_id = m.actor_id
    /\ n.actor_id \notin {n.user_id, m.user_id}
    /\ split_claims = {} /\ split_claim_participants = {}

\* The notification rows that a step adds, of any type.
AddedAny ==
  {n \in DOMAIN notifications' :
     n \notin DOMAIN notifications \/ notifications'[n] > notifications[n]}

C30_NoFullPendingSplit ==
  \A s \in split_claims :
    s.status = "pending" => ParticipantCount(s.id) < s.target_participants

\* C31: no split has more participants than its target, joins that run as
\* concurrent transactions included.
C31_CountWithinTarget ==
  \A s \in split_claims : ParticipantCount(s.id) <= s.target_participants

C33_ConfirmKeepsHistory ==
  [][\A f \in item_ownership_flags, u \in Users :
       resolveFlag(f.id, u, "confirmed") =>
         /\ \A c \in item_claims :
              (c.item_id = f.item_id /\ c.status # "active") => c \in item_claims'
         /\ \A s \in split_claims :
              (s.item_id = f.item_id /\ s.claim_status = "fulfilled")
                => s \in split_claims']_vars

\* C34: a step that confirms a flag adds, for every participant of every
\* split claim of the item that it removes, the initiator included, a
\* split_cancelled notification whose actor is the owner who confirmed, and,
\* for the claimer of every active solo claim that it removes, a notification
\* about the item.
C34_ConfirmTellsClaimers ==
  [][\A f \in item_ownership_flags, u \in Users :
       resolveFlag(f.id, u, "confirmed") =>
         /\ \A s \in split_claims :
              (s.item_id = f.item_id /\ ~\E t \in split_claims' : t.id = s.id) =>
                \A v \in ParticipantIds(split_claim_participants, s.id) :
                  \E n \in AddedAny :
                    /\ n.type = "split_cancelled" /\ n.user_id = v
                    /\ n.actor_id = u
         /\ \A c \in item_claims :
              (c.item_id = f.item_id /\ c.status = "active" /\ c \notin item_claims') =>
                \E n \in AddedAny : n.user_id = c.claimed_by /\ n.item_id = c.item_id]_vars

\* C35: a notification that references a split claim references one that
\* exists, and one that references an ownership flag references one that
\* exists.
C35_NotificationReferencesExist ==
  \A n \in DOMAIN notifications :
    /\ n.split_claim_id # NULL => \E s \in split_claims : s.id = n.split_claim_id
    /\ n.ownership_flag_id # NULL =>
         \E f \in item_ownership_flags : f.id = n.ownership_flag_id

\* C35 witness: a flag was withdrawn and a split that somebody had joined was
\* cancelled; the notifications that referred to them went with them and the
\* split_cancelled one is there.
C35_Witness ==
  /\ next_id.flag > 1 /\ item_ownership_flags = {}
  /\ next_id.split > 1 /\ split_claims = {}
  /\ \E n \in DOMAIN notifications : n.type = "split_cancelled"
  /\ \A n \in DOMAIN notifications :
       n.type \notin {"item_flagged_already_owned", "split_joined", "split_initiated"}

\* C36: removing a friendship removes, in the same step, every allowlist entry
\* between the two users in both directions and no other entry; afterwards an
\* entry appears only by addSelectedFriend, and a user other than the owner
\* views a selected_friends wishlist only while on its allowlist, so that
\* becoming friends again gives neither of the two the other's
\* selected_friends wishlists back.
AllowlistBetween(sf, a, b) ==
  \/ wishlists[sf.wishlist_id].user_id = a /\ sf.friend_id = b
  \/ wishlists[sf.wishlist_id].user_id = b /\ sf.friend_id = a

C36_UnfriendClearsAllowlist ==
  [][ /\ \A f \in friendships, u \in Users :
          removeFriendship(f, u) =>
            /\ \A sf \in wishlist_selected_friends' :
                 ~ AllowlistBetween(sf, f.requester_id, f.addressee_id)
            /\ \A sf \in wishlist_selected_friends :
                 \/ AllowlistBetween(sf, f.requester_id, f.addressee_id)
                 \/ sf \in wishlist_selected_friends'
      /\ wishlist_selected_friends' \ wishlist_selected_friends # {}
           => \E w \in DOMAIN wishlists, u \in Users, v \in Users :
                addSelectedFriend(w, u, v)
      /\ \A w \in DOMAIN wishlists, v \in Users :
           /\ wishlists[w].privacy = "selected_friends"
           /\ v # wishlists[w].user_id
           /\ can_view_wishlist(w, v)'
           => [wishlist_id |-> w, friend_id |-> v] \in wishlist_selected_friends'
     ]_vars

\* Users 1 and 2 are friends again, by a request that went the other way
\* than the first one, and 2 was refused wishlist 1: neither is on the
\* other's allowlist, while user 3 is still on both.
C36_Witness ==
  /\ [requester_id |-> 2, addressee_id |-> 1, status |-> "accepted"] \in friendships
  /\ [wishlist_id |-> 1, friend_id |-> 2] \notin wishlist_selected_friends
  /\ [wishlist_id |-> 2, friend_id |-> 1] \notin wishlist_selected_friends
  /\ [wishlist_id |-> 1, friend_id |-> 3] \in wishlist_selected_friends
  /\ [wishlist_id |-> 2, friend_id |-> 3] \in wishlist_selected_friends
  /\ are_friends(1, 3) /\ are_friends(2, 3)
  /\ returned = [op |-> "canView", wishlist_id |-> 1, viewer_id |-> 2,
                 value |-> FALSE]

\* C37 as stated: a step adds a wishlist_created or item_added notification
\* only for a user who can view the wishlist once the step is done; in
\* particular none for a private wishlist and, for a selected_friends
\* wishlist, none for a friend outside the allowlist.
C37_FeedOnlyToViewers ==
  [][\A n \in Added("wishlist_created") \cup Added("item_added") :
       can_view_wishlist(n.wishlist_id, n.user_id)']_vars

\* The part of C37 that the code keeps: none is added for a private wishlist.
C37_NoneForPrivate ==
  [][\A n \in Added("wishlist_created") \cup Added("item_added") :
       wishlists'[n.wishlist_id].privacy # "private"]_vars

C39_CountIsUnreadInList ==
  /\ useNotifications.unreadCount >= 0
  /\ realtime = <<>> /\ pending = {}
       => useNotifications.unreadCount = UnreadInList(useNotifications.notifications)

\* The part of C39 that the code keeps: unreadCount is never negative.
C39_CountNeverNegative == useNotifications.unreadCount >= 0

\* C40 as stated: useDialogForm resets its state and fires onClose only while
\* the dialog is closed, so that a dialog closed and reopened within the delay
\* keeps what the user sees in it.
C40_ResetOnlyWhileClosed ==
  [][closeDialogResumes => ~ useDialogForm.open /\ ~ useDialogForm'.onClose]_vars

\* What holds of useDialogReset, whose cleanup clears the timer when the
\* dialog is opened again: its reset runs only while the dialog is closed.
C40_DialogResetOnlyWhileClosed ==
  [][resetTimeout => ~ useDialogReset.open]_vars

====
